---- MODULE Spec2Model ----
(***************************************************************************)
(* Memory-management core of viceOS: the physical frame allocator          *)
(* (kernel/src/mem/phys.rs), the page-table mapper                         *)
(* (kernel/src/arch/x86_64/paging.rs) and the auto-extending heap          *)
(* (kernel/src/mem/heap.rs).                                               *)
(*                                                                         *)
(* 64-bit machine words are kept at their width: a u64 is a tuple of four  *)
(* 16-bit limbs (least significant first), and shifts, masks and additions *)
(* are computed on the limbs.  usize page indices of the frame allocator   *)
(* are small naturals.                                                     *)
(***************************************************************************)
EXTENDS Integers, Sequences, FiniteSets, TLC

(***************************************************************************)
(* Bounds of the model.                                                    *)
(***************************************************************************)
\* Number of frames below the allocator's ceiling.  The kernel has
\* MAX_PHYS_MEM / PAGE_SIZE = 1048576 of them (phys.rs:7-9); the model keeps
\* the same code over a short bitmap.
MAX_PAGES == 5
\* Longest memory map handed to FrameAllocator::init.
MaxMapEntries == 2
\* Highest page a memory-map entry starts in.
MaxMapPage == 3
\* Number of map_page / unmap_page calls followed in one run.
MaxMapperCalls == 4
\* The heap's sizes in pages.  The kernel's are 1024, 1024 and 131072
\* (heap.rs:8-10); the model keeps the code over a heap of a few pages.
InitialHeapPages == 1
ExtendChunkPages == 2
MaxHeapPages == 4
\* Allocations that are live at once.
MaxLive == 2
\* Pages one extension of the heap sets out to map, in the runs that follow
\* the locks.
MaxExtendPages == 2

(***************************************************************************)
(* 64-bit words                                                            *)
(***************************************************************************)
Limb == 2 ^ 16
LimbIdx == 1..4

\* The word written as four 16-bit groups, most significant first.
W(l3, l2, l1, l0) == <<l0, l1, l2, l3>>
Zero64 == W(0, 0, 0, 0)

\* n < 2^31 as a 64-bit word.
FromNat(n) == <<n % Limb, (n \div Limb) % Limb, 0, 0>>
FitsNat(x) == x[3] = 0 /\ x[4] = 0 /\ x[2] < 2 ^ 14
ToNat(x) == x[1] + x[2] * Limb

Pow2(k) == 2 ^ k
Bit(x, i) == (x[(i \div 16) + 1] \div Pow2(i % 16)) % 2

RECURSIVE BitsFrom(_, _, _)
\* bits lo .. lo+w-1 of x as a number (w <= 30): (x >> lo) & (2^w - 1)
BitsFrom(x, lo, w) ==
    IF w = 0 THEN 0 ELSE Bit(x, lo) + 2 * BitsFrom(x, lo + 1, w - 1)

\* a & b and a | b of two limbs, bit by bit from the least significant;
\* the remaining bits of a & b are 0 once either operand is 0, and those of
\* a | b are the other operand's once one operand is 0
RECURSIVE AndLimb(_, _, _)
AndLimb(a, b, k) ==
    IF k = 0 \/ a = 0 \/ b = 0 THEN 0
    ELSE ((a % 2) * (b % 2)) + 2 * AndLimb(a \div 2, b \div 2, k - 1)

RECURSIVE OrLimb(_, _, _)
OrLimb(a, b, k) ==
    IF k = 0 THEN 0
    ELSE IF a = 0 THEN b % Pow2(k)
    ELSE IF b = 0 THEN a % Pow2(k)
    ELSE (IF (a % 2) + (b % 2) > 0 THEN 1 ELSE 0)
         + 2 * OrLimb(a \div 2, b \div 2, k - 1)

And64(x, y) ==
    <<AndLimb(x[1], y[1], 16), AndLimb(x[2], y[2], 16),
      AndLimb(x[3], y[3], 16), AndLimb(x[4], y[4], 16)>>
Or64(x, y) ==
    <<OrLimb(x[1], y[1], 16), OrLimb(x[2], y[2], 16),
      OrLimb(x[3], y[3], 16), OrLimb(x[4], y[4], 16)>>

\* x + y modulo 2^64
Add64(x, y) ==
    LET s1 == x[1] + y[1]
        s2 == x[2] + y[2] + (s1 \div Limb)
        s3 == x[3] + y[3] + (s2 \div Limb)
        s4 == x[4] + y[4] + (s3 \div Limb)
    IN  <<s1 % Limb, s2 % Limb, s3 % Limb, s4 % Limb>>

\* Option<u64>
None == [some |-> FALSE, val |-> Zero64]
Some(v) == [some |-> TRUE, val |-> v]

\* The element of a one-element set.  The({e : x \in {v}}) is e with x
\* standing for the value of v, computed once.
The(S) == CHOOSE y \in S : TRUE

Max(a, b) == IF a >= b THEN a ELSE b
Min(a, b) == IF a <= b THEN a ELSE b
MinOf(S) == CHOOSE m \in S : \A y \in S : m <= y

(***************************************************************************)
(* mem/mod.rs                                                              *)
(***************************************************************************)
PAGE_SIZE == 4096

\* addr & !(PAGE_SIZE - 1)
page_align_down(addr) == addr - (addr % PAGE_SIZE)
\* (addr + PAGE_SIZE - 1) & !(PAGE_SIZE - 1)
page_align_up(addr) == page_align_down(addr + PAGE_SIZE - 1)

(***************************************************************************)
(* mem/phys.rs: FrameAllocator                                             *)
(***************************************************************************)
Pages == 0..(MAX_PAGES - 1)

\* (addr as usize) / PAGE_SIZE.  Every page index at or above MAX_PAGES is
\* handled alike by the allocator; addresses whose index does not fit a
\* small natural are given one such index.
FarPage == 256 * 4096
PageOf(addr) == IF FitsNat(addr) THEN ToNat(addr) \div PAGE_SIZE ELSE FarPage

\* (page * PAGE_SIZE) as u64
FrameAddr(page) == FromNat(page * PAGE_SIZE)

\* FrameAllocator::new()
NewFrameAllocator ==
    [bitmap |-> [p \in Pages |-> FALSE],
     first_free |-> 0,
     total_pages |-> 0,
     free_pages |-> 0]

is_allocated(a, page) ==
    IF page >= MAX_PAGES THEN TRUE ELSE a.bitmap[page]

\* mark_free without the test for a frame that is free already: the frame
\* is counted again
mark_free_counting_again(a, page) ==
    IF page >= MAX_PAGES THEN a
    ELSE [a EXCEPT !.bitmap[page] = FALSE,
                   !.free_pages = @ + 1,
                   !.total_pages = Max(@, page + 1)]

mark_free(a, page) ==
    IF page >= MAX_PAGES THEN a
    ELSE IF ~is_allocated(a, page) THEN a
    ELSE [a EXCEPT !.bitmap[page] = FALSE,
                   !.free_pages = @ + 1,
                   !.total_pages = Max(@, page + 1)]

\* mark_allocated with the bit left clear: the count is taken but the
\* frame still reads as free
mark_allocated_bit_left_clear(a, page) ==
    IF page >= MAX_PAGES THEN a
    ELSE IF is_allocated(a, page) THEN a
    ELSE [a EXCEPT !.free_pages = @ - 1]

mark_allocated(a, page) ==
    IF page >= MAX_PAGES THEN a
    ELSE IF is_allocated(a, page) THEN a
    ELSE [a EXCEPT !.bitmap[page] = TRUE,
                   !.free_pages = @ - 1]

RECURSIVE mark_free_range(_, _, _)
\* for page in start..end { if page < MAX_PAGES { mark_free(page) } }
mark_free_range(a, start, end) ==
    IF start >= end THEN a
    ELSE mark_free_range(IF start < MAX_PAGES THEN mark_free(a, start) ELSE a,
                         start + 1, end)

RECURSIVE init_entries_start_rounded_down(_, _, _)
\* the loop of init with the start of an entry rounded down, so that a
\* frame the entry covers only in part is freed
init_entries_start_rounded_down(a, map, i) ==
    IF i > Len(map) THEN a
    ELSE LET entry == map[i]
             start == page_align_down(entry.base) \div PAGE_SIZE
             end   == page_align_down(entry.base + entry.length) \div PAGE_SIZE
         IN  init_entries_start_rounded_down(
                 IF entry.mem_type = "Available"
                    THEN mark_free_range(a, start, end)
                    ELSE a,
                 map, i + 1)

RECURSIVE init_entries(_, _, _)
\* the loop over the memory-map entries of FrameAllocator::init
init_entries(a, map, i) ==
    IF i > Len(map) THEN a
    ELSE LET entry == map[i]
             start == page_align_up(entry.base) \div PAGE_SIZE
             end   == page_align_down(entry.base + entry.length) \div PAGE_SIZE
         IN  init_entries(IF entry.mem_type = "Available"
                             THEN mark_free_range(a, start, end)
                             ELSE a,
                          map, i + 1)

\* FrameAllocator::init.  An absent memory map (null pointer or zero
\* entries) is the empty sequence.
frame_init(a, map) ==
    LET full == [a EXCEPT !.bitmap = [p \in Pages |-> TRUE]]
    IN  IF Len(map) = 0
        THEN [full EXCEPT !.total_pages = MAX_PAGES, !.free_pages = MAX_PAGES]
        ELSE init_entries(full, map, 1)

\* alloc without the second scan from frame 0 up to first_free
alloc_without_wrap_around(a) ==
    LET upper == {p \in a.first_free..(a.total_pages - 1) : ~is_allocated(a, p)}
    IN  IF upper # {}
        THEN [a   |-> [mark_allocated(a, MinOf(upper)) EXCEPT !.first_free = MinOf(upper) + 1],
              ret |-> Some(FrameAddr(MinOf(upper)))]
        ELSE [a |-> a, ret |-> None]

\* FrameAllocator::alloc: [a |-> allocator after the call, ret |-> Option<u64>]
alloc(a) ==
    LET upper == {p \in a.first_free..(a.total_pages - 1) : ~is_allocated(a, p)}
        lower == {p \in 0..(a.first_free - 1) : ~is_allocated(a, p)}
        take(page) == [a   |-> [mark_allocated(a, page) EXCEPT !.first_free = page + 1],
                       ret |-> Some(FrameAddr(page))]
    IN  IF upper # {} THEN take(MinOf(upper))
        ELSE IF lower # {} THEN take(MinOf(lower))
        ELSE [a |-> a, ret |-> None]

RECURSIVE mark_allocated_range(_, _, _)
mark_allocated_range(a, start, end) ==
    IF start >= end THEN a
    ELSE mark_allocated_range(mark_allocated(a, start), start + 1, end)

\* alloc_contiguous testing only the first frame of a candidate run
alloc_contiguous_first_frame_only(a, num_pages, checked) ==
    IF num_pages = 0 \/ num_pages > a.free_pages
    THEN [a |-> a, ret |-> None, panic |-> FALSE]
    ELSE IF num_pages > a.total_pages /\ checked
    THEN [a |-> a, ret |-> None, panic |-> TRUE]
    ELSE LET last == IF num_pages > a.total_pages
                        THEN MAX_PAGES
                        ELSE a.total_pages - num_pages
             runs == {s \in a.first_free..last : ~is_allocated(a, s)}
         IN  IF runs = {} THEN [a |-> a, ret |-> None, panic |-> FALSE]
             ELSE LET start_page == MinOf(runs)
                  IN  [a |-> [mark_allocated_range(a, start_page, start_page + num_pages)
                                EXCEPT !.first_free = start_page + num_pages],
                       ret |-> Some(FrameAddr(start_page)),
                       panic |-> FALSE]

\* alloc_contiguous marking frames while it scans, without undoing the
\* marks of a run that turns out too short
alloc_contiguous_marks_while_scanning(a, num_pages, checked) ==
    IF num_pages = 0 \/ num_pages > a.free_pages
    THEN [a |-> a, ret |-> None, panic |-> FALSE]
    ELSE IF num_pages > a.total_pages /\ checked
    THEN [a |-> a, ret |-> None, panic |-> TRUE]
    ELSE LET last == IF num_pages > a.total_pages
                        THEN MAX_PAGES
                        ELSE a.total_pages - num_pages
             runs == {s \in a.first_free..last :
                        \A p \in s..(s + num_pages - 1) : ~is_allocated(a, p)}
             seen == {s \in a.first_free..last : ~is_allocated(a, s)}
         IN  IF runs = {}
             THEN [a |-> IF seen = {} THEN a ELSE mark_allocated(a, MinOf(seen)),
                   ret |-> None, panic |-> FALSE]
             ELSE LET start_page == MinOf(runs)
                  IN  [a |-> [mark_allocated_range(a, start_page, start_page + num_pages)
                                EXCEPT !.first_free = start_page + num_pages],
                       ret |-> Some(FrameAddr(start_page)),
                       panic |-> FALSE]

\* FrameAllocator::alloc_contiguous.  total_pages - num_pages is a usize
\* subtraction: when it underflows, a build with overflow checks panics
\* (checked = TRUE) and a build without them wraps, so that the scan runs
\* over every start page from first_free on.
alloc_contiguous(a, num_pages, checked) ==
    IF num_pages = 0 \/ num_pages > a.free_pages
    THEN [a |-> a, ret |-> None, panic |-> FALSE]
    ELSE IF num_pages > a.total_pages /\ checked
    THEN [a |-> a, ret |-> None, panic |-> TRUE]
    ELSE LET last == IF num_pages > a.total_pages
                        THEN MAX_PAGES
                        ELSE a.total_pages - num_pages
             runs == {s \in a.first_free..last :
                        \A p \in s..(s + num_pages - 1) : ~is_allocated(a, p)}
         IN  IF runs = {} THEN [a |-> a, ret |-> None, panic |-> FALSE]
             ELSE LET start_page == MinOf(runs)
                  IN  [a |-> [mark_allocated_range(a, start_page, start_page + num_pages)
                                EXCEPT !.first_free = start_page + num_pages],
                       ret |-> Some(FrameAddr(start_page)),
                       panic |-> FALSE]

\* free that leaves first_free where it is
free_without_rewind(a, addr) ==
    LET page == PageOf(addr)
    IN  IF page < MAX_PAGES /\ is_allocated(a, page)
        THEN mark_free(a, page)
        ELSE a

\* FrameAllocator::free
free(a, addr) ==
    LET page == PageOf(addr)
    IN  IF page < MAX_PAGES /\ is_allocated(a, page)
        THEN LET b == mark_free(a, page)
             IN  IF page < b.first_free THEN [b EXCEPT !.first_free = page] ELSE b
        ELSE a

\* FrameAllocator::free_contiguous
free_contiguous(a, addr, num_pages) ==
    LET start_page == PageOf(addr)
        b == mark_free_range(a, start_page, start_page + num_pages)
    IN  IF start_page < b.first_free THEN [b EXCEPT !.first_free = start_page] ELSE b

\* The warning of free_contiguous for a page at or beyond the ceiling
\* formats (page * PAGE_SIZE) as u64, a usize multiplication: it overflows
\* when the range reaches past the last frame of the 64-bit address space,
\* i.e. when the base of the first page plus (num_pages - 1) * PAGE_SIZE
\* carries out of 64 bits.
warn_overflows(addr, num_pages) ==
    /\ num_pages >= 1
    /\ LET y  == FromNat((num_pages - 1) * PAGE_SIZE)
           s1 == (addr[1] - (addr[1] % PAGE_SIZE)) + y[1]
           s2 == addr[2] + y[2] + (s1 \div Limb)
           s3 == addr[3] + y[3] + (s2 \div Limb)
           s4 == addr[4] + y[4] + (s3 \div Limb)
       IN  s4 >= Limb

\* free_contiguous as a call: a build with overflow checks that logs
\* warnings (checked = TRUE) panics where the warning's argument
\* overflows; the pages before that one all lie beyond the ceiling, so the
\* allocator is as it was.
free_contiguous_call(a, addr, num_pages, checked) ==
    IF checked /\ warn_overflows(addr, num_pages)
    THEN [a |-> a, panic |-> TRUE]
    ELSE [a |-> free_contiguous(a, addr, num_pages), panic |-> FALSE]

\* stats(): (total, used, free); total - free is a usize subtraction
stats(a) == <<a.total_pages, a.total_pages - a.free_pages, a.free_pages>>

(***************************************************************************)
(* arch/x86_64/paging.rs: page-table entries                               *)
(***************************************************************************)
PRESENT    == W(0, 0, 0, \h0001)
WRITABLE   == W(0, 0, 0, \h0002)
HUGE_PAGE  == W(0, 0, 0, \h0080)
NO_EXECUTE == W(\h8000, 0, 0, 0)

ADDR_MASK == W(\h000F, \hFFFF, \hFFFF, \hF000)
FLAG_MASK == W(\h8000, \h0000, \h0000, \h0FFF)

\* PageTableEntry::new without the masks
PageTableEntry_new_unmasked(addr, flags) == Or64(addr, flags)

\* PageTableEntry::new
PageTableEntry_new(addr, flags) == Or64(And64(addr, ADDR_MASK), And64(flags, FLAG_MASK))
\* PageTableEntry::addr
PTE_addr(e) == And64(e, ADDR_MASK)
\* PageTableEntry::flags
PTE_flags(e) == And64(e, FLAG_MASK)
\* PageTableEntry::set_addr
set_addr(e, addr) == Or64(And64(e, FLAG_MASK), And64(addr, ADDR_MASK))
\* PageTableEntry::set_flags
set_flags(e, flags) == Or64(And64(e, ADDR_MASK), And64(flags, FLAG_MASK))
is_present(e) == And64(PTE_flags(e), PRESENT) # Zero64
is_huge_page(e) == And64(PTE_flags(e), HUGE_PAGE) # Zero64

\* indices() taking the PD index from bit 20
indices_pd_from_bit_20(v) ==
    [pml4   |-> BitsFrom(v, 39, 9),
     pdpt   |-> BitsFrom(v, 30, 9),
     pd     |-> BitsFrom(v, 20, 9),
     pt     |-> BitsFrom(v, 12, 9),
     offset |-> BitsFrom(v, 0, 12)]

\* VirtualAddress::indices
indices(v) ==
    [pml4   |-> BitsFrom(v, 39, 9),
     pdpt   |-> BitsFrom(v, 30, 9),
     pd     |-> BitsFrom(v, 21, 9),
     pt     |-> BitsFrom(v, 12, 9),
     offset |-> BitsFrom(v, 0, 12)]

(***************************************************************************)
(* Page-table memory.  A table is named by its physical address (the       *)
(* kernel reaches it through the identity mapping) and a slot by           *)
(* <<table address, index>>.  pt.mem holds the slots written so far; a     *)
(* slot not in it reads as 0 in a frame zeroed by map_page and in the      *)
(* static tables, as the identity huge-page entry in KPD once init has     *)
(* seeded it, and as pt.junk (whatever the memory held) elsewhere.         *)
(***************************************************************************)
\* Link-time addresses of the static tables KPML4, KPDPT and KPD[0..3]:
\* six 4 KiB-aligned tables in the kernel image at 1 MiB, outside the
\* frames the model's allocator hands out.
KPML4_ADDR == W(0, 0, \h0010, \h0000)
KPDPT_ADDR == W(0, 0, \h0010, \h1000)
KPD_ADDR(j) == W(0, 0, \h0010, \h2000 + j * \h1000)
KPD_ADDRS == {KPD_ADDR(j) : j \in 0..3}
KPD_INDEX(base) == CHOOSE j \in 0..3 : KPD_ADDR(j) = base
StaticTables == {KPML4_ADDR, KPDPT_ADDR} \cup KPD_ADDRS

\* n * 0x200000 for n < 2048
Times2MiB(n) == <<0, (n % 2048) * 32, n \div 2048, 0>>

\* KPD[j][i] as paging::init writes it
IdentityHugeEntry(j, i) ==
    PageTableEntry_new(Times2MiB(j * 512 + i), Or64(Or64(PRESENT, WRITABLE), HUGE_PAGE))

EmptyPageTables(junk) ==
    [mem |-> <<>>, zeroed |-> {}, seeded |-> FALSE, junk |-> junk]

\* what a slot holds while no write to it is recorded in pt.mem
Background(pt, base, idx) ==
    IF base \in pt.zeroed THEN Zero64
    ELSE IF base \in KPD_ADDRS /\ pt.seeded THEN IdentityHugeEntry(KPD_INDEX(base), idx)
    ELSE IF base \in StaticTables THEN Zero64
    ELSE pt.junk

\* (*table).entries[idx]
ReadEntry(pt, base, idx) ==
    IF <<base, idx>> \in DOMAIN pt.mem THEN pt.mem[<<base, idx>>]
    ELSE Background(pt, base, idx)

\* (*table).entries[idx] = e.  pt.mem records the slots that differ from
\* their background, so that equal memories are equal values.
WriteEntry(pt, base, idx, e) ==
    IF e = Background(pt, base, idx)
    THEN [pt EXCEPT !.mem = [s \in DOMAIN pt.mem \ {<<base, idx>>} |-> pt.mem[s]]]
    ELSE [pt EXCEPT !.mem = (<<base, idx>> :> e) @@ pt.mem]

\* core::ptr::write_bytes(table, 0, 1)
ZeroTable(pt, base) ==
    [pt EXCEPT !.mem = [s \in {t \in DOMAIN pt.mem : t[1] # base} |-> pt.mem[s]],
               !.zeroed = @ \cup {base}]

\* paging::init
paging_init(pt) ==
    LET pw == Or64(PRESENT, WRITABLE)
        t1 == WriteEntry(pt, KPML4_ADDR, 0, PageTableEntry_new(KPDPT_ADDR, pw))
        t2 == WriteEntry(t1, KPML4_ADDR, 511, PageTableEntry_new(KPDPT_ADDR, pw))
        t3 == WriteEntry(t2, KPDPT_ADDR, 0, PageTableEntry_new(KPD_ADDR(0), pw))
        t4 == WriteEntry(t3, KPDPT_ADDR, 1, PageTableEntry_new(KPD_ADDR(1), pw))
        t5 == WriteEntry(t4, KPDPT_ADDR, 2, PageTableEntry_new(KPD_ADDR(2), pw))
        t6 == WriteEntry(t5, KPDPT_ADDR, 3, PageTableEntry_new(KPD_ADDR(3), pw))
    IN  [t6 EXCEPT !.seeded = TRUE,
                   !.mem = [s \in {t \in DOMAIN t6.mem : t[1] \notin KPD_ADDRS} |-> t6.mem[s]],
                   !.zeroed = @ \ KPD_ADDRS]

\* PageTableEntry::new(frame, PRESENT | WRITABLE) for the frame alloc returned
installed(r) == PageTableEntry_new(r.ret.val, Or64(PRESENT, WRITABLE))

\* One level of map_page: if the entry is absent, allocate a frame, install
\* it as present + writable and zero the new table.
\* [pt, a: page tables and allocator afterwards, ok, next: the next table]
ensure_table(pt, a, base, idx) ==
    The({ IF is_present(e)
          THEN [pt |-> pt, a |-> a, ok |-> TRUE, next |-> PTE_addr(e)]
          ELSE The({ IF ~r.ret.some
                     THEN [pt |-> pt, a |-> r.a, ok |-> FALSE, next |-> Zero64]
                     ELSE The({ [pt |-> zeroed, a |-> r.a, ok |-> TRUE,
                                 next |-> PTE_addr(ReadEntry(zeroed, base, idx))]
                                : zeroed \in {ZeroTable(WriteEntry(pt, base, idx, installed(r)),
                                                        PTE_addr(installed(r)))} })
                     : r \in {alloc(a)} })
          : e \in {ReadEntry(pt, base, idx)} })

\* paging::map_page: [pt, a, ok]
map_page(pt, a, virt, phys, flags) ==
    The({ The({ IF ~l4.ok THEN [pt |-> l4.pt, a |-> l4.a, ok |-> FALSE]
          ELSE The({ IF ~l3.ok THEN [pt |-> l3.pt, a |-> l3.a, ok |-> FALSE]
               ELSE The({ IF ~l2.ok THEN [pt |-> l2.pt, a |-> l2.a, ok |-> FALSE]
                    ELSE [pt |-> WriteEntry(l2.pt, l2.next, i.pt,
                                    PageTableEntry_new(phys, Or64(flags, PRESENT))),
                          a |-> l2.a, ok |-> TRUE]
                    : l2 \in {ensure_table(l3.pt, l3.a, l3.next, i.pd)} })
               : l3 \in {ensure_table(l4.pt, l4.a, l4.next, i.pdpt)} })
          : l4 \in {ensure_table(pt, a, KPML4_ADDR, i.pml4)} })
          : i \in {indices(virt)} })

\* unmap_page without the check of the leaf entry's present bit
unmap_page_leaf_unchecked(pt, virt) ==
    LET i == indices(virt)
        pml4_entry == ReadEntry(pt, KPML4_ADDR, i.pml4)
        pdpt_entry == ReadEntry(pt, PTE_addr(pml4_entry), i.pdpt)
        pd_entry == ReadEntry(pt, PTE_addr(pdpt_entry), i.pd)
        pt_entry == ReadEntry(pt, PTE_addr(pd_entry), i.pt)
    IN  IF ~is_present(pml4_entry) THEN [pt |-> pt, ret |-> None]
        ELSE IF ~is_present(pdpt_entry) THEN [pt |-> pt, ret |-> None]
        ELSE IF ~is_present(pd_entry) THEN [pt |-> pt, ret |-> None]
        ELSE [pt |-> WriteEntry(pt, PTE_addr(pd_entry), i.pt, Zero64),
              ret |-> Some(PTE_addr(pt_entry))]

\* unmap_page clearing the PD entry above the leaf instead of the leaf
unmap_page_clearing_pd_entry(pt, virt) ==
    LET i == indices(virt)
        pml4_entry == ReadEntry(pt, KPML4_ADDR, i.pml4)
        pdpt_entry == ReadEntry(pt, PTE_addr(pml4_entry), i.pdpt)
        pd_entry == ReadEntry(pt, PTE_addr(pdpt_entry), i.pd)
        pt_entry == ReadEntry(pt, PTE_addr(pd_entry), i.pt)
    IN  IF ~is_present(pml4_entry) THEN [pt |-> pt, ret |-> None]
        ELSE IF ~is_present(pdpt_entry) THEN [pt |-> pt, ret |-> None]
        ELSE IF ~is_present(pd_entry) THEN [pt |-> pt, ret |-> None]
        ELSE IF ~is_present(pt_entry) THEN [pt |-> pt, ret |-> None]
        ELSE [pt |-> WriteEntry(pt, PTE_addr(pdpt_entry), i.pd, Zero64),
              ret |-> Some(PTE_addr(pt_entry))]

\* paging::unmap_page: [pt, ret]; ret = None is the Err result
unmap_page(pt, virt) ==
    LET i == indices(virt)
        pml4_entry == ReadEntry(pt, KPML4_ADDR, i.pml4)
        pdpt_entry == ReadEntry(pt, PTE_addr(pml4_entry), i.pdpt)
        pd_entry == ReadEntry(pt, PTE_addr(pdpt_entry), i.pd)
        pt_entry == ReadEntry(pt, PTE_addr(pd_entry), i.pt)
    IN  IF ~is_present(pml4_entry) THEN [pt |-> pt, ret |-> None]
        ELSE IF ~is_present(pdpt_entry) THEN [pt |-> pt, ret |-> None]
        ELSE IF ~is_present(pd_entry) THEN [pt |-> pt, ret |-> None]
        ELSE IF ~is_present(pt_entry) THEN [pt |-> pt, ret |-> None]
        ELSE [pt |-> WriteEntry(pt, PTE_addr(pd_entry), i.pt, Zero64),
              ret |-> Some(PTE_addr(pt_entry))]

\* virt & 0x3FFF_FFFF and virt & 0x1F_FFFF
Low30(v) == <<v[1], v[2] % (2 ^ 14), 0, 0>>
Low21(v) == <<v[1], v[2] % (2 ^ 5), 0, 0>>

\* translate adding the offset into a 4 KiB page at every level
translate_page_offset_only(pt, virt) ==
    LET i == indices(virt)
        pml4_entry == ReadEntry(pt, KPML4_ADDR, i.pml4)
        pdpt_entry == ReadEntry(pt, PTE_addr(pml4_entry), i.pdpt)
        pd_entry == ReadEntry(pt, PTE_addr(pdpt_entry), i.pd)
        pt_entry == ReadEntry(pt, PTE_addr(pd_entry), i.pt)
    IN  IF ~is_present(pml4_entry) THEN None
        ELSE IF ~is_present(pdpt_entry) THEN None
        ELSE IF is_huge_page(pdpt_entry)
             THEN Some(Add64(PTE_addr(pdpt_entry), FromNat(i.offset)))
        ELSE IF ~is_present(pd_entry) THEN None
        ELSE IF is_huge_page(pd_entry)
             THEN Some(Add64(PTE_addr(pd_entry), FromNat(i.offset)))
        ELSE IF ~is_present(pt_entry) THEN None
        ELSE Some(Add64(PTE_addr(pt_entry), FromNat(i.offset)))

\* paging::translate
translate(pt, virt) ==
    LET i == indices(virt)
        pml4_entry == ReadEntry(pt, KPML4_ADDR, i.pml4)
        pdpt_entry == ReadEntry(pt, PTE_addr(pml4_entry), i.pdpt)
        pd_entry == ReadEntry(pt, PTE_addr(pdpt_entry), i.pd)
        pt_entry == ReadEntry(pt, PTE_addr(pd_entry), i.pt)
    IN  IF ~is_present(pml4_entry) THEN None
        ELSE IF ~is_present(pdpt_entry) THEN None
        ELSE IF is_huge_page(pdpt_entry) THEN Some(Add64(PTE_addr(pdpt_entry), Low30(virt)))
        ELSE IF ~is_present(pd_entry) THEN None
        ELSE IF is_huge_page(pd_entry) THEN Some(Add64(PTE_addr(pd_entry), Low21(virt)))
        ELSE IF ~is_present(pt_entry) THEN None
        ELSE Some(Add64(PTE_addr(pt_entry), FromNat(i.offset)))

(***************************************************************************)
(* Table-pointer dereferences of the mapper walks (paging.rs 199-329)      *)
(***************************************************************************)
\* One level of map_page: the values the entry holds each time its addr()
\* is cast to a table pointer and dereferenced.  An entry found present is
\* used once; an entry map_page installs is used to zero the new table and
\* read again, after the zeroing, to reach the next level.
ensure_table_derefs(pt, a, base, idx) ==
    LET e == ReadEntry(pt, base, idx)
        r == alloc(a)
        written == WriteEntry(pt, base, idx, installed(r))
        zeroed == ZeroTable(written, PTE_addr(ReadEntry(written, base, idx)))
    IN  IF is_present(e) THEN <<e>>
        ELSE IF ~r.ret.some THEN <<>>
        ELSE <<ReadEntry(written, base, idx), ReadEntry(zeroed, base, idx)>>

\* paging::map_page: the entries dereferenced as table pointers, in order
map_page_derefs(pt, a, virt) ==
    LET i == indices(virt)
        l4 == ensure_table(pt, a, KPML4_ADDR, i.pml4)
        l3 == ensure_table(l4.pt, l4.a, l4.next, i.pdpt)
        l2 == ensure_table(l3.pt, l3.a, l3.next, i.pd)
    IN  ensure_table_derefs(pt, a, KPML4_ADDR, i.pml4)
        \o (IF ~l4.ok THEN <<>>
            ELSE ensure_table_derefs(l4.pt, l4.a, l4.next, i.pdpt)
                 \o (IF ~l3.ok THEN <<>>
                     ELSE ensure_table_derefs(l3.pt, l3.a, l3.next, i.pd)))

\* paging::unmap_page: the entries dereferenced as table pointers, in order
unmap_page_derefs(pt, virt) ==
    LET i == indices(virt)
        pml4_entry == ReadEntry(pt, KPML4_ADDR, i.pml4)
        pdpt_entry == ReadEntry(pt, PTE_addr(pml4_entry), i.pdpt)
        pd_entry == ReadEntry(pt, PTE_addr(pdpt_entry), i.pd)
    IN  IF ~is_present(pml4_entry) THEN <<>>
        ELSE IF ~is_present(pdpt_entry) THEN <<pml4_entry>>
        ELSE IF ~is_present(pd_entry) THEN <<pml4_entry, pdpt_entry>>
        ELSE <<pml4_entry, pdpt_entry, pd_entry>>

\* paging::translate: the entries dereferenced as table pointers, in order
translate_derefs(pt, virt) ==
    LET i == indices(virt)
        pml4_entry == ReadEntry(pt, KPML4_ADDR, i.pml4)
        pdpt_entry == ReadEntry(pt, PTE_addr(pml4_entry), i.pdpt)
        pd_entry == ReadEntry(pt, PTE_addr(pdpt_entry), i.pd)
    IN  IF ~is_present(pml4_entry) THEN <<>>
        ELSE IF ~is_present(pdpt_entry) THEN <<pml4_entry>>
        ELSE IF is_huge_page(pdpt_entry) THEN <<pml4_entry>>
        ELSE IF ~is_present(pd_entry) THEN <<pml4_entry, pdpt_entry>>
        ELSE IF is_huge_page(pd_entry) THEN <<pml4_entry, pdpt_entry>>
        ELSE <<pml4_entry, pdpt_entry, pd_entry>>


(***************************************************************************)
(* mem/heap.rs: AutoExtendHeap                                             *)
(***************************************************************************)
HEAP_START == W(\h0000, \h0000, \h0200, \h0000)
INITIAL_HEAP_SIZE == InitialHeapPages * PAGE_SIZE
EXTEND_CHUNK_SIZE == ExtendChunkPages * PAGE_SIZE
MAX_HEAP_SIZE == MaxHeapPages * PAGE_SIZE

\* heap::heap_size: (heap_end - HEAP_START) as usize
heap_size(heap_end) == ToNat(heap_end) - ToNat(HEAP_START)

\* AutoExtendHeap::new: an empty LockedHeap.  The linked-list allocator is
\* kept as the bytes it manages and the bytes it has handed out.
EmptyHeap == [init |-> FALSE, size |-> 0, used |-> 0]

\* the loop of AutoExtendHeap::init from page i on; the expect() calls
\* panic with the frames and pages of the earlier rounds in place
RECURSIVE init_pages(_, _, _, _)
init_pages(pt, a, i, num_pages) ==
    IF i = num_pages THEN [pt |-> pt, a |-> a, panic |-> FALSE]
    ELSE The({ IF ~f.ret.some THEN [pt |-> pt, a |-> f.a, panic |-> TRUE]
               ELSE The({ IF m.ok THEN init_pages(m.pt, m.a, i + 1, num_pages)
                          ELSE [pt |-> m.pt, a |-> m.a, panic |-> TRUE]
                          : m \in {map_page(pt, f.a, Add64(HEAP_START, FromNat(i * PAGE_SIZE)),
                                            f.ret.val, Or64(PRESENT, WRITABLE))} })
               : f \in {alloc(a)} })

\* the loop of try_extend giving the frame back after a successful mapping
\* as well
RECURSIVE extend_pages_releasing_frames(_, _, _, _, _)
extend_pages_releasing_frames(pt, a, heap_end, i, num_pages) ==
    IF i = num_pages THEN [pt |-> pt, a |-> a, mapped |-> i]
    ELSE The({ IF ~f.ret.some THEN [pt |-> pt, a |-> f.a, mapped |-> i]
               ELSE The({ IF m.ok
                          THEN extend_pages_releasing_frames(m.pt, free(m.a, f.ret.val),
                                                             heap_end, i + 1, num_pages)
                          ELSE [pt |-> m.pt, a |-> free(m.a, f.ret.val), mapped |-> i]
                          : m \in {map_page(pt, f.a, Add64(heap_end, FromNat(i * PAGE_SIZE)),
                                            f.ret.val, Or64(PRESENT, WRITABLE))} })
               : f \in {alloc(a)} })

\* the loop of try_extend keeping the frame when map_page fails
RECURSIVE extend_pages_keeping_frame(_, _, _, _, _)
extend_pages_keeping_frame(pt, a, heap_end, i, num_pages) ==
    IF i = num_pages THEN [pt |-> pt, a |-> a, mapped |-> i]
    ELSE The({ IF ~f.ret.some THEN [pt |-> pt, a |-> f.a, mapped |-> i]
               ELSE The({ IF m.ok
                          THEN extend_pages_keeping_frame(m.pt, m.a, heap_end, i + 1, num_pages)
                          ELSE [pt |-> m.pt, a |-> m.a, mapped |-> i]
                          : m \in {map_page(pt, f.a, Add64(heap_end, FromNat(i * PAGE_SIZE)),
                                            f.ret.val, Or64(PRESENT, WRITABLE))} })
               : f \in {alloc(a)} })

\* the loop of try_extend from page i on: [pt, a, mapped: mapped_pages]
RECURSIVE extend_pages(_, _, _, _, _)
extend_pages(pt, a, heap_end, i, num_pages) ==
    IF i = num_pages THEN [pt |-> pt, a |-> a, mapped |-> i]
    ELSE The({ IF ~f.ret.some THEN [pt |-> pt, a |-> f.a, mapped |-> i]
               ELSE The({ IF m.ok THEN extend_pages(m.pt, m.a, heap_end, i + 1, num_pages)
                          ELSE [pt |-> m.pt, a |-> free(m.a, f.ret.val), mapped |-> i]
                          : m \in {map_page(pt, f.a, Add64(heap_end, FromNat(i * PAGE_SIZE)),
                                            f.ret.val, Or64(PRESENT, WRITABLE))} })
               : f \in {alloc(a)} })

\* the loop of try_extend from page i on: the frame of the page whose
\* map_page fails (heap.rs:91), if the loop ends that way
RECURSIVE extend_unmapped_frame(_, _, _, _, _)
extend_unmapped_frame(pt, a, heap_end, i, num_pages) ==
    IF i = num_pages THEN None
    ELSE The({ IF ~f.ret.some THEN None
               ELSE The({ IF m.ok
                          THEN extend_unmapped_frame(m.pt, m.a, heap_end, i + 1, num_pages)
                          ELSE Some(f.ret.val)
                          : m \in {map_page(pt, f.a, Add64(heap_end, FromNat(i * PAGE_SIZE)),
                                            f.ret.val, Or64(PRESENT, WRITABLE))} })
               : f \in {alloc(a)} })

\* try_extend without the cap at the ceiling's headroom
try_extend_uncapped(heap_end, pt, a, min_bytes) ==
    LET current_size == heap_size(heap_end)
        want == Max(min_bytes, EXTEND_CHUNK_SIZE)
        num_pages == (want + PAGE_SIZE - 1) \div PAGE_SIZE
    IN  IF current_size >= MAX_HEAP_SIZE
        THEN [ok |-> FALSE, heap_end |-> heap_end, pt |-> pt, a |-> a, added |-> 0]
        ELSE The({ [ok |-> r.mapped # 0,
                    heap_end |-> Add64(heap_end, FromNat(r.mapped * PAGE_SIZE)),
                    pt |-> r.pt, a |-> r.a, added |-> r.mapped * PAGE_SIZE]
                   : r \in {extend_pages(pt, a, heap_end, 0, num_pages)} })

\* try_extend that grows by one chunk and knows no ceiling
try_extend_unchecked(heap_end, pt, a, min_bytes) ==
    LET want == Max(min_bytes, EXTEND_CHUNK_SIZE)
        capped == Min(want, EXTEND_CHUNK_SIZE)
        num_pages == (capped + PAGE_SIZE - 1) \div PAGE_SIZE
    IN  The({ [ok |-> r.mapped # 0,
               heap_end |-> Add64(heap_end, FromNat(r.mapped * PAGE_SIZE)),
               pt |-> r.pt, a |-> r.a, added |-> r.mapped * PAGE_SIZE]
              : r \in {extend_pages(pt, a, heap_end, 0, num_pages)} })

\* try_extend that maps what the request asks for, without the chunk minimum
try_extend_request_only(heap_end, pt, a, min_bytes) ==
    LET current_size == heap_size(heap_end)
        capped == Min(min_bytes, MAX_HEAP_SIZE - current_size)
        num_pages == (capped + PAGE_SIZE - 1) \div PAGE_SIZE
    IN  IF current_size >= MAX_HEAP_SIZE
        THEN [ok |-> FALSE, heap_end |-> heap_end, pt |-> pt, a |-> a, added |-> 0]
        ELSE The({ [ok |-> r.mapped # 0,
                    heap_end |-> Add64(heap_end, FromNat(r.mapped * PAGE_SIZE)),
                    pt |-> r.pt, a |-> r.a, added |-> r.mapped * PAGE_SIZE]
                   : r \in {extend_pages(pt, a, heap_end, 0, num_pages)} })

\* try_extend that gives up, keeping nothing, unless every page was mapped
try_extend_all_or_nothing(heap_end, pt, a, min_bytes) ==
    LET current_size == heap_size(heap_end)
        want == Max(min_bytes, EXTEND_CHUNK_SIZE)
        capped == Min(want, MAX_HEAP_SIZE - current_size)
        num_pages == (capped + PAGE_SIZE - 1) \div PAGE_SIZE
    IN  IF current_size >= MAX_HEAP_SIZE
        THEN [ok |-> FALSE, heap_end |-> heap_end, pt |-> pt, a |-> a, added |-> 0]
        ELSE The({ IF r.mapped = num_pages
                   THEN [ok |-> TRUE,
                         heap_end |-> Add64(heap_end, FromNat(r.mapped * PAGE_SIZE)),
                         pt |-> r.pt, a |-> r.a, added |-> r.mapped * PAGE_SIZE]
                   ELSE [ok |-> FALSE, heap_end |-> heap_end, pt |-> r.pt, a |-> r.a,
                         added |-> 0]
                   : r \in {extend_pages(pt, a, heap_end, 0, num_pages)} })

\* try_extend moving heap_end by the pages it set out to map rather than
\* by the pages it mapped
try_extend_counting_requested(heap_end, pt, a, min_bytes) ==
    LET current_size == heap_size(heap_end)
        want == Max(min_bytes, EXTEND_CHUNK_SIZE)
        capped == Min(want, MAX_HEAP_SIZE - current_size)
        num_pages == (capped + PAGE_SIZE - 1) \div PAGE_SIZE
    IN  IF current_size >= MAX_HEAP_SIZE
        THEN [ok |-> FALSE, heap_end |-> heap_end, pt |-> pt, a |-> a, added |-> 0]
        ELSE The({ [ok |-> r.mapped # 0,
                    heap_end |-> Add64(heap_end, FromNat(num_pages * PAGE_SIZE)),
                    pt |-> r.pt, a |-> r.a, added |-> r.mapped * PAGE_SIZE]
                   : r \in {extend_pages(pt, a, heap_end, 0, num_pages)} })

\* AutoExtendHeap::try_extend up to inner.extend(added):
\* [ok: the result, heap_end, pt, a afterwards, added: the bytes mapped]
try_extend(heap_end, pt, a, min_bytes) ==
    LET current_size == heap_size(heap_end)
        want == Max(min_bytes, EXTEND_CHUNK_SIZE)
        capped == Min(want, MAX_HEAP_SIZE - current_size)
        num_pages == (capped + PAGE_SIZE - 1) \div PAGE_SIZE
    IN  IF current_size >= MAX_HEAP_SIZE
        THEN [ok |-> FALSE, heap_end |-> heap_end, pt |-> pt, a |-> a, added |-> 0]
        ELSE The({ [ok |-> r.mapped # 0,
                    heap_end |-> Add64(heap_end, FromNat(r.mapped * PAGE_SIZE)),
                    pt |-> r.pt, a |-> r.a, added |-> r.mapped * PAGE_SIZE]
                   : r \in {extend_pages(pt, a, heap_end, 0, num_pages)} })

\* num_pages of try_extend (heap.rs:70-72) for a heap below the ceiling
extend_num_pages(heap_end, min_bytes) ==
    LET want == Max(min_bytes, EXTEND_CHUNK_SIZE)
        capped == Min(want, MAX_HEAP_SIZE - heap_size(heap_end))
    IN  (capped + PAGE_SIZE - 1) \div PAGE_SIZE

\* the outcomes of inner.allocate_first_fit for a request of size bytes:
\* it can succeed only while the bytes fit, and it can fail whenever no
\* hole fits the layout
first_fit(inner, size) ==
    IF inner.used + size <= inner.size THEN BOOLEAN ELSE {FALSE}

(***************************************************************************)
(* Spin locks: the lock()/unlock events of each operation, in the order    *)
(* the code makes them.  A guard bound to a name is released at the end of *)
(* its block; a temporary guard at the end of its statement.               *)
(***************************************************************************)
\* heap.rs:14,16  phys.rs:229  logging.rs:65 (SERIAL)  keyboard.rs:4,5,143
LOCKS == {"heap_end", "inner", "FRAME_ALLOCATOR", "SERIAL",
          "KEYBOARD_BUF", "EXTENDED_KEY", "MODIFIERS"}
HeapLocks == {"heap_end", "inner"}

Acq(l) == <<"acq", l>>
Rel(l) == <<"rel", l>>
\* the panic handler halts for ever (lib.rs:128-131); nothing unwinds
Halt == <<"halt", "">>

RECURSIVE Flatten(_)
Flatten(ss) == IF ss = <<>> THEN <<>> ELSE Head(ss) \o Flatten(Tail(ss))

\* a log::...! call: SerialLogger::log takes SERIAL when a logger is
\* installed and the level is enabled (logs)
Logged(logs) == IF logs THEN <<Acq("SERIAL"), Rel("SERIAL")>> ELSE <<>>

\* phys::alloc_frame; FrameAllocator::alloc warns, under the lock, when it
\* finds no frame
alloc_frame_locks(found, logs) ==
    <<Acq("FRAME_ALLOCATOR")>> \o (IF found THEN <<>> ELSE Logged(logs))
    \o <<Rel("FRAME_ALLOCATOR")>>

\* phys::free_frame; FrameAllocator::free warns about a page beyond MAX_PAGES
free_frame_locks(beyond, logs) ==
    <<Acq("FRAME_ALLOCATOR")>> \o (IF beyond THEN Logged(logs) ELSE <<>>)
    \o <<Rel("FRAME_ALLOCATOR")>>

\* phys::init: a trace on entry, then a warn (no map) or a debug (map)
phys_init_locks(logs) ==
    <<Acq("FRAME_ALLOCATOR")>> \o Logged(logs) \o Logged(logs)
    \o <<Rel("FRAME_ALLOCATOR")>>

\* phys::alloc_frames, free_frames_count, total_frames_count, stats
frame_query_locks == <<Acq("FRAME_ALLOCATOR"), Rel("FRAME_ALLOCATOR")>>

\* paging::map_page that creates `tables` table levels and, if ~ok, fails
\* at the next one; it takes no lock of its own
map_page_locks(tables, ok, logs) ==
    Flatten([k \in 1..tables |-> alloc_frame_locks(TRUE, logs)])
    \o (IF ok THEN <<>> ELSE alloc_frame_locks(FALSE, logs))

\* one round of try_extend's loop (heap.rs:75-100)
extend_page_locks(o, logs) ==
    IF o.kind = "noframe" THEN alloc_frame_locks(FALSE, logs) \o Logged(logs)
    ELSE IF o.kind = "mapped"
    THEN alloc_frame_locks(TRUE, logs) \o map_page_locks(o.tables, TRUE, logs)
    ELSE alloc_frame_locks(TRUE, logs) \o map_page_locks(o.tables, FALSE, logs)
         \o free_frame_locks(FALSE, logs) \o Logged(logs)

MappedIn(pages) == Cardinality({k \in 1..Len(pages) : pages[k].kind = "mapped"})

\* AutoExtendHeap::try_extend: heap_end is held from line 59 to the return
try_extend_locks(at_ceiling, pages, logs) ==
    <<Acq("heap_end")>>
    \o (IF at_ceiling THEN Logged(logs)
        ELSE Flatten([k \in 1..Len(pages) |-> extend_page_locks(pages[k], logs)])
             \o (IF MappedIn(pages) = 0 THEN <<>>
                 ELSE <<Acq("inner"), Rel("inner")>> \o Logged(logs)))
    \o <<Rel("heap_end")>>

\* an alloc that keeps the inner heap's guard while it extends the heap
alloc_locks_holding_inner(first_ok, at_ceiling, pages, logs) ==
    <<Acq("inner")>>
    \o (IF first_ok THEN <<>> ELSE try_extend_locks(at_ceiling, pages, logs))
    \o <<Rel("inner")>>

\* GlobalAlloc::alloc (heap.rs:124-146)
alloc_locks(first_ok, at_ceiling, pages, logs) ==
    <<Acq("inner"), Rel("inner")>>
    \o (IF first_ok THEN <<>>
        ELSE try_extend_locks(at_ceiling, pages, logs)
             \o (IF ~at_ceiling /\ MappedIn(pages) > 0
                 THEN <<Acq("inner"), Rel("inner")>> ELSE <<>>))

\* GlobalAlloc::dealloc, heap_stats
dealloc_locks == <<Acq("inner"), Rel("inner")>>
\* heap_size
heap_size_locks == <<Acq("heap_end"), Rel("heap_end")>>

\* one round of AutoExtendHeap::init's loop; its expect() calls panic
init_page_locks(o, logs) ==
    IF o.kind = "noframe" THEN alloc_frame_locks(FALSE, logs) \o <<Halt>>
    ELSE IF o.kind = "mapped"
    THEN alloc_frame_locks(TRUE, logs) \o map_page_locks(o.tables, TRUE, logs)
    ELSE alloc_frame_locks(TRUE, logs) \o map_page_locks(o.tables, FALSE, logs)
         \o <<Halt>>

\* AutoExtendHeap::init (heap.rs:27-53)
heap_init_locks(pages, logs) ==
    <<Acq("heap_end")>>
    \o Flatten([k \in 1..Len(pages) |-> init_page_locks(pages[k], logs)])
    \o (IF MappedIn(pages) < Len(pages) THEN <<>>
        ELSE <<Acq("inner"), Rel("inner")>> \o Logged(logs) \o <<Rel("heap_end")>>)

\* keyboard::read_key, has_key
read_key_locks == <<Acq("KEYBOARD_BUF"), Rel("KEYBOARD_BUF")>>

\* VecDeque::push_back: with room left it touches no lock; a deque of
\* capacity 0 allocates its buffer, a full one allocates a larger buffer
\* and gives the old one back
push_back_locks(grow, allocation) ==
    IF grow = "no" THEN <<>>
    ELSE IF grow = "first" THEN allocation
    ELSE allocation \o dealloc_locks

\* keyboard::handle_interrupt (keyboard.rs:151-174) with handle_scancode
handle_interrupt_locks(prefix, room, grow, allocation) ==
    IF prefix THEN <<Acq("EXTENDED_KEY"), Rel("EXTENDED_KEY")>>
    ELSE <<Acq("EXTENDED_KEY"), Rel("EXTENDED_KEY"),
           Acq("MODIFIERS"), Rel("MODIFIERS"),
           Acq("MODIFIERS"), Rel("MODIFIERS"),
           Acq("KEYBOARD_BUF")>>
         \o (IF room THEN push_back_locks(grow, allocation) ELSE <<>>)
         \o <<Rel("KEYBOARD_BUF")>>

(***************************************************************************)
(* State                                                                   *)
(***************************************************************************)
VARIABLES
    FRAME_ALLOCATOR,  \* the global FrameAllocator (phys.rs:229)
    fa_ready,         \* phys::init has run
    PAGE_TABLES,      \* KPML4, KPDPT, KPD and every table reached from them
    panicked,         \* the kernel has panicked (lib.rs:128: halts for ever)
    op,               \* the last call and what it returned
    held,             \* per frame: times handed out since it was last freed
    vmap,             \* per virtual page: the frame map_page last installed
    calls,            \* map_page / unmap_page calls made so far
    heap_end,         \* ALLOCATOR.heap_end (heap.rs:16)
    inner,            \* ALLOCATOR.inner (heap.rs:14)
    live,             \* sizes of the allocations not yet deallocated
    heap_op,          \* the last call of the heap and what it returned
    todo,             \* per running context, the lock events its call has left
    locks,            \* per spin lock, the context that holds it (0: free)
    order,            \* pairs <<lock held, lock requested>> seen so far
    spinning,         \* the lock a context spins on for ever, or "none"
    walk,             \* where the map_page call in progress stands
    decomposed,       \* the last address given to indices() and its result
    pte               \* a PageTableEntry value and the call that made it

frameVars == <<FRAME_ALLOCATOR, fa_ready, held>>
pageVars == <<PAGE_TABLES, vmap, calls>>
heapVars == <<heap_end, inner, live, heap_op>>
lockVars == <<todo, locks, order, spinning>>
vars == <<FRAME_ALLOCATOR, fa_ready, PAGE_TABLES, panicked, op, held, vmap, calls,
          heap_end, inner, live, heap_op, todo, locks, order, spinning, walk, decomposed, pte>>

(***************************************************************************)
(* Inputs                                                                  *)
(***************************************************************************)
\* byte offsets into a page used to build unaligned addresses
MapOffsets == {0, 1}

\* lengths of memory-map entries: less than a page, an unaligned length of
\* more than two pages, and 0x4000 (the 16 KiB entry of the spec's scenario)
MapLengths == {PAGE_SIZE - 1, 2 * PAGE_SIZE + 1, 4 * PAGE_SIZE}

\* Available entries of every base and length, and one entry of another type
MapEntries ==
    [base     : {pg * PAGE_SIZE + o : pg \in 0..MaxMapPage, o \in MapOffsets},
     length   : MapLengths,
     mem_type : {"Available"}]
    \cup {[base |-> 0, length |-> 4 * PAGE_SIZE, mem_type |-> "Reserved"]}

RECURSIVE SeqsUpTo(_, _)
SeqsUpTo(S, n) ==
    IF n = 0 THEN {<<>>}
    ELSE LET shorter == SeqsUpTo(S, n - 1)
         IN  shorter \cup {Append(q, e) : q \in {r \in shorter : Len(r) = n - 1}, e \in S}

MemoryMaps == SeqsUpTo(MapEntries, MaxMapEntries)

\* memory map of the runs that exercise the mapper: the spec's 16 KiB entry
BootMaps ==
    {<<[base |-> 0, length |-> 4 * PAGE_SIZE, mem_type |-> "Available"]>>}

\* the last frame of the 64-bit address space
LAST_FRAME == W(\hFFFF, \hFFFF, \hFFFF, \hF000)

\* addresses given to free / free_contiguous: every frame below the
\* ceiling, the first frame beyond it, and an address inside a frame
FreeAddrs == {FrameAddr(pg) : pg \in 0..MAX_PAGES} \cup {FromNat(PAGE_SIZE + 8)}

\* page counts given to alloc_contiguous / free_contiguous
PageCounts == 0..(MAX_PAGES + 1)

\* virtual addresses given to map_page / unmap_page
V_ZERO     == W(\h0000, \h0000, \h0000, \h0000)  \* first page of the identity region
V_SCENARIO == W(\h0000, \h0000, \h0050, \h0000)  \* 0x500000
V_4GIB     == W(\h0000, \h0001, \h0000, \h0000)  \* first page above the identity region
V_4GIB_IN  == W(\h0000, \h0001, \h0000, \h0123)  \* an address inside that page
V_PML4_1   == W(\h0000, \h0080, \h0000, \h0000)  \* top-level index 1
VirtInputs == {V_ZERO, V_SCENARIO, V_4GIB, V_4GIB_IN, V_PML4_1}

\* physical address and flags given to map_page: the spec's scenario
\* (0x700000, present | writable), and a frame with flags that lack the
\* present bit
P_SCENARIO == W(\h0000, \h0000, \h0070, \h0000)
MapInputs ==
    {[phys |-> P_SCENARIO, flags |-> Or64(PRESENT, WRITABLE)],
     [phys |-> FrameAddr(3), flags |-> Or64(WRITABLE, NO_EXECUTE)]}

\* offsets into a page at which translate is asked
TranslateOffsets == {0, 291, PAGE_SIZE - 1}

\* contents of memory that no table write has reached: not present, or an
\* entry that happens to have the present bit set
JunkEntries == {Zero64, PageTableEntry_new(FrameAddr(2), PRESENT)}

\* v with bits 0..11 cleared, and its low 48 bits (the bits indices() reads)
PageBase(v) == <<v[1] - (v[1] % PAGE_SIZE), v[2], v[3], v[4]>>
PageKey(v) == <<v[1] - (v[1] % PAGE_SIZE), v[2], v[3], 0>>
VKeys == {PageKey(v) : v \in VirtInputs}

NoArg == [phys |-> Zero64, flags |-> Zero64]
\* no map_page call is in progress
NoWalk ==
    [pc |-> "idle", virt |-> Zero64, arg |-> NoArg, level |-> 0, base |-> Zero64,
     fresh |-> {}, nohuge |-> FALSE, boot |-> FALSE]

\* a call of the frame API; for init, ok tells that a memory map was given
\* and map is that map where the run keeps it; refree
\* tells that free / free_contiguous was given frames that were all free,
\* beyond that it was given frames at or beyond the ceiling only
FrameCall(name, n, ret) ==
    [name |-> name, n |-> n, ret |-> ret, virt |-> Zero64, arg |-> NoArg,
     ok |-> ret.some, nohuge |-> FALSE, boot |-> FALSE, again |-> FALSE,
     map |-> <<>>, refree |-> FALSE, beyond |-> FALSE]
NoOp == FrameCall("none", 0, None)

(***************************************************************************)
(* Frame allocator API (phys.rs:231-249)                                   *)
(***************************************************************************)
Bump(h, pages) == [p \in Pages |-> IF p \in pages THEN Min(h[p] + 1, 2) ELSE h[p]]
Release(h, pages) == [p \in Pages |-> IF p \in pages THEN 0 ELSE h[p]]

\* the call addresses at least one frame, and every frame it addresses is
\* free already
AllFree(a, start_page, num_pages) ==
    /\ num_pages >= 1
    /\ \A p \in start_page..(start_page + num_pages - 1) : ~is_allocated(a, p)

\* phys::init, called once by mem::init.  keep_map tells whether op keeps
\* the memory map for the claims about init to read.
FrameInitOp(maps, keep_map) ==
    /\ ~fa_ready /\ ~panicked
    /\ \E map \in maps :
         /\ FRAME_ALLOCATOR' = frame_init(FRAME_ALLOCATOR, map)
         /\ op' = [FrameCall("init", 0, None) EXCEPT
                      !.map = IF keep_map THEN map ELSE <<>>,
                      !.ok = Len(map) > 0]
    /\ fa_ready' = TRUE
    /\ held' = [p \in Pages |-> 0]
    /\ UNCHANGED <<panicked, pageVars, heapVars, lockVars, walk, decomposed, pte>>

FrameInitFrom(maps) == FrameInitOp(maps, FALSE)

FrameInit == FrameInitFrom(MemoryMaps)

\* phys::init with the memory map kept in op
FrameInitKeepingMap == FrameInitOp(MemoryMaps, TRUE)

AllocFrame ==
    /\ ~panicked
    /\ LET r == alloc(FRAME_ALLOCATOR)
       IN  /\ FRAME_ALLOCATOR' = r.a
           /\ op' = FrameCall("alloc", 1, r.ret)
           /\ held' = IF r.ret.some THEN Bump(held, {PageOf(r.ret.val)}) ELSE held
    /\ UNCHANGED <<fa_ready, panicked, pageVars, heapVars, lockVars, walk, decomposed, pte>>

AllocFrames ==
    /\ ~panicked
    /\ \E count \in PageCounts, checked \in BOOLEAN :
         \* the builds differ only where total_pages - num_pages underflows
         /\ checked \/ count > FRAME_ALLOCATOR.total_pages
         /\ LET r == alloc_contiguous(FRAME_ALLOCATOR, count, checked)
            IN
             /\ FRAME_ALLOCATOR' = r.a
             /\ panicked' = r.panic
             /\ op' = FrameCall("alloc_contiguous", count, r.ret)
             /\ held' = IF r.ret.some
                           THEN Bump(held, PageOf(r.ret.val)..(PageOf(r.ret.val) + count - 1))
                           ELSE held
    /\ UNCHANGED <<fa_ready, pageVars, heapVars, lockVars, walk, decomposed, pte>>

FreeFrame ==
    /\ ~panicked
    /\ \E addr \in FreeAddrs :
         /\ FRAME_ALLOCATOR' = free(FRAME_ALLOCATOR, addr)
         /\ held' = Release(held, {PageOf(addr)})
         /\ op' = [FrameCall("free", 1, None) EXCEPT
                      !.arg.phys = addr,
                      !.refree = AllFree(FRAME_ALLOCATOR, PageOf(addr), 1),
                      !.beyond = PageOf(addr) >= MAX_PAGES]
    /\ UNCHANGED <<fa_ready, panicked, pageVars, heapVars, lockVars, walk, decomposed, pte>>

FreeFrames ==
    /\ ~panicked
    /\ \E addr \in FreeAddrs \cup {LAST_FRAME}, count \in PageCounts, checked \in BOOLEAN :
         \* ranges that reach more than one frame beyond the ceiling act
         \* like the range that reaches one frame beyond it, unless they
         \* reach past the last frame of the address space
         /\ \/ PageOf(addr) + count <= MAX_PAGES + 1
            \/ addr = LAST_FRAME /\ count <= 2
         \* the builds differ only where the warning's argument overflows
         /\ checked \/ warn_overflows(addr, count)
         /\ \E r \in {free_contiguous_call(FRAME_ALLOCATOR, addr, count, checked)} :
              /\ FRAME_ALLOCATOR' = r.a
              /\ panicked' = r.panic
         /\ held' = Release(held, PageOf(addr)..(PageOf(addr) + count - 1))
         /\ op' = [FrameCall("free_contiguous", 0, None) EXCEPT
                      !.refree = AllFree(FRAME_ALLOCATOR, PageOf(addr), count),
                      !.beyond = count >= 1 /\ PageOf(addr) >= MAX_PAGES]
    /\ UNCHANGED <<fa_ready, pageVars, heapVars, lockVars, walk, decomposed, pte>>

(***************************************************************************)
(* Mapper API (paging.rs)                                                  *)
(***************************************************************************)
\* no present entry that v's walk crosses above the leaf is a huge page
NoHugeOnPath(pt, v) ==
    LET i == indices(v)
        e4 == ReadEntry(pt, KPML4_ADDR, i.pml4)
        e3 == ReadEntry(pt, PTE_addr(e4), i.pdpt)
        e2 == ReadEntry(pt, PTE_addr(e3), i.pd)
    IN  \/ ~is_present(e4)
        \/ /\ ~is_huge_page(e4)
           /\ \/ ~is_present(e3)
              \/ /\ ~is_huge_page(e3)
                 /\ (~is_present(e2) \/ ~is_huge_page(e2))

\* the four-level walk of v meets an entry that is not present
LevelAbsent(pt, v) ==
    LET i == indices(v)
        e4 == ReadEntry(pt, KPML4_ADDR, i.pml4)
        e3 == ReadEntry(pt, PTE_addr(e4), i.pdpt)
        e2 == ReadEntry(pt, PTE_addr(e3), i.pd)
        e1 == ReadEntry(pt, PTE_addr(e2), i.pt)
    IN  ~is_present(e4) \/ ~is_present(e3) \/ ~is_present(e2) \/ ~is_present(e1)

\* the state paging::init leaves behind
IsBootstrapState(pt) == pt = paging_init(EmptyPageTables(pt.junk))

\* the frame allocator is set up first, with a short memory map
BootFrameInit == FrameInitFrom(BootMaps)

\* paging::init runs at boot, before the mapper is used
PagingInit ==
    /\ ~panicked
    /\ PAGE_TABLES = EmptyPageTables(PAGE_TABLES.junk)
    /\ PAGE_TABLES' = paging_init(PAGE_TABLES)
    /\ op' = [FrameCall("paging_init", 0, None) EXCEPT !.ok = TRUE]
    /\ UNCHANGED <<frameVars, panicked, vmap, calls, heapVars, lockVars, walk, decomposed, pte>>

MapPage ==
    /\ ~panicked
    /\ calls < MaxMapperCalls
    /\ calls' = calls + 1
    /\ \E v \in VirtInputs, m \in MapInputs :
         \E r \in {map_page(PAGE_TABLES, FRAME_ALLOCATOR, v, m.phys, m.flags)},
            nohuge \in {NoHugeOnPath(PAGE_TABLES, v)} :
             /\ PAGE_TABLES' = r.pt
             /\ FRAME_ALLOCATOR' = r.a
             /\ held' = Bump(held, {p \in Pages : r.a.bitmap[p] /\ ~FRAME_ALLOCATOR.bitmap[p]})
             /\ op' = [name |-> "map_page", n |-> 0, ret |-> None, virt |-> v, arg |-> m,
                       ok |-> r.ok, nohuge |-> nohuge,
                       boot |-> IsBootstrapState(PAGE_TABLES), again |-> FALSE,
                       map |-> <<>>, refree |-> FALSE, beyond |-> FALSE]
             /\ vmap' = IF r.ok
                           THEN [vmap EXCEPT ![PageKey(v)] =
                                    IF nohuge THEN Some(m.phys) ELSE None]
                           ELSE vmap
    /\ UNCHANGED <<fa_ready, panicked, heapVars, lockVars, walk, decomposed, pte>>

UnmapPage ==
    /\ ~panicked
    /\ calls < MaxMapperCalls
    /\ calls' = calls + 1
    /\ \E v \in VirtInputs :
         \E r \in {unmap_page(PAGE_TABLES, v)} :
             /\ PAGE_TABLES' = r.pt
             /\ op' = [name |-> "unmap_page", n |-> 0, ret |-> r.ret, virt |-> v,
                       arg |-> NoArg, ok |-> r.ret.some,
                       nohuge |-> NoHugeOnPath(PAGE_TABLES, v),
                       boot |-> IsBootstrapState(PAGE_TABLES),
                       again |-> op.name = "unmap_page" /\ op.ok /\ op.virt = v,
                       map |-> <<>>, refree |-> FALSE, beyond |-> FALSE]
             /\ vmap' = IF r.ret.some THEN [vmap EXCEPT ![PageKey(v)] = None] ELSE vmap
    /\ UNCHANGED <<frameVars, panicked, heapVars, lockVars, walk, decomposed, pte>>

\* paging::translate: reads KPML4 and the tables below it, writes nothing
Translate ==
    /\ ~panicked
    /\ calls < MaxMapperCalls
    /\ calls' = calls + 1
    /\ \E v \in VirtInputs :
         \E r \in {translate(PAGE_TABLES, v)} :
             op' = [name |-> "translate", n |-> 0, ret |-> r, virt |-> v,
                    arg |-> NoArg, ok |-> r.some, nohuge |-> FALSE, boot |-> FALSE,
                    again |-> op.name = "unmap_page" /\ op.ok /\ op.virt = v,
                    map |-> <<>>, refree |-> FALSE, beyond |-> FALSE]
    /\ UNCHANGED <<frameVars, PAGE_TABLES, panicked, vmap, heapVars, lockVars, walk, decomposed, pte>>

(***************************************************************************)
(* map_page, one memory access at a time (paging.rs:199-249)               *)
(***************************************************************************)
\* indices.pml4 / pdpt / pd / pt by the level of the table
IndexAt(v, level) ==
    CASE level = 4 -> indices(v).pml4
      [] level = 3 -> indices(v).pdpt
      [] level = 2 -> indices(v).pd
      [] OTHER     -> indices(v).pt

Walking == walk.pc # "idle"

\* map_page is entered: the walk starts at KPML4
MapPageCall ==
    /\ ~panicked /\ ~Walking
    /\ calls < MaxMapperCalls
    /\ calls' = calls + 1
    /\ \E v \in VirtInputs, m \in MapInputs :
         walk' = [pc |-> "entry", virt |-> v, arg |-> m, level |-> 4, base |-> KPML4_ADDR,
                  fresh |-> {}, nohuge |-> NoHugeOnPath(PAGE_TABLES, v),
                  boot |-> IsBootstrapState(PAGE_TABLES)]
    /\ UNCHANGED <<frameVars, PAGE_TABLES, panicked, op, vmap, heapVars, lockVars, decomposed, pte>>

\* what map_page leaves in op when it returns
MapPageResult(ok) ==
    [name |-> "map_page", n |-> 0, ret |-> None, virt |-> walk.virt, arg |-> walk.arg,
     ok |-> ok, nohuge |-> walk.nohuge, boot |-> walk.boot, again |-> FALSE,
     map |-> <<>>, refree |-> FALSE, beyond |-> FALSE]

\* The entry of one of the three upper levels is read.  Present: the walk
\* descends.  Not present: a frame is asked for; without one map_page
\* returns the error, with one the entry that points at it is written
\* (lines 207, 220, 233).
MapPageEntry ==
    /\ walk.pc = "entry" /\ walk.level > 1
    /\ \E idx \in {IndexAt(walk.virt, walk.level)} :
       \E e \in {ReadEntry(PAGE_TABLES, walk.base, idx)} :
         IF is_present(e)
         THEN /\ walk' = [walk EXCEPT !.level = @ - 1, !.base = PTE_addr(e)]
              /\ UNCHANGED <<frameVars, PAGE_TABLES, op, vmap>>
         ELSE \E r \in {alloc(FRAME_ALLOCATOR)} :
                /\ FRAME_ALLOCATOR' = r.a
                /\ UNCHANGED fa_ready
                /\ IF ~r.ret.some
                   THEN /\ walk' = NoWalk
                        /\ op' = MapPageResult(FALSE)
                        /\ UNCHANGED <<PAGE_TABLES, held, vmap>>
                   ELSE /\ PAGE_TABLES' = WriteEntry(PAGE_TABLES, walk.base, idx, installed(r))
                        /\ held' = Bump(held, {PageOf(r.ret.val)})
                        /\ walk' = [walk EXCEPT !.pc = "zero", !.fresh = {r.ret.val}]
                        /\ UNCHANGED <<op, vmap>>
    /\ UNCHANGED <<panicked, calls, heapVars, lockVars, decomposed, pte>>

\* The table the entry names is zeroed (lines 210-211, 223-224, 236-237)
\* and the walk descends into the table the entry names then (214, 227,
\* 240).
MapPageZero ==
    /\ walk.pc = "zero"
    /\ \E idx \in {IndexAt(walk.virt, walk.level)} :
       \E zeroed \in {ZeroTable(PAGE_TABLES,
                                PTE_addr(ReadEntry(PAGE_TABLES, walk.base, idx)))} :
         /\ PAGE_TABLES' = zeroed
         /\ walk' = [walk EXCEPT !.pc = "entry", !.fresh = {}, !.level = @ - 1,
                                 !.base = PTE_addr(ReadEntry(zeroed, walk.base, idx))]
    /\ UNCHANGED <<frameVars, panicked, op, vmap, calls, heapVars, lockVars, decomposed, pte>>

\* The leaf entry is written and map_page returns Ok (lines 241-248).
MapPageLeaf ==
    /\ walk.pc = "entry" /\ walk.level = 1
    /\ PAGE_TABLES' = WriteEntry(PAGE_TABLES, walk.base, IndexAt(walk.virt, 1),
                                 PageTableEntry_new(walk.arg.phys, Or64(walk.arg.flags, PRESENT)))
    /\ op' = MapPageResult(TRUE)
    /\ vmap' = [vmap EXCEPT ![PageKey(walk.virt)] =
                   IF walk.nohuge THEN Some(walk.arg.phys) ELSE None]
    /\ walk' = NoWalk
    /\ UNCHANGED <<frameVars, panicked, calls, heapVars, lockVars, decomposed, pte>>

\* boot happens before the mapper is called
BootBeforeWalks == ~Walking /\ (BootFrameInit \/ PagingInit)

(***************************************************************************)
(* VirtualAddress::indices on its own (paging.rs:137-147)                  *)
(***************************************************************************)
\* 16-bit groups of the addresses given to indices(): all zeros, all ones,
\* and the values on either side of the field boundaries at bits 12, 21,
\* 30, 39 and 48
Group0 == {0, 4095, 4096, 65535}
Group1 == {0, 31, 32, 16383, 16384, 65535}
Group2 == {0, 127, 128, 65535}
Group3 == {0, 32768, 65535}
Addresses == {W(l3, l2, l1, l0) : l3 \in Group3, l2 \in Group2, l1 \in Group1, l0 \in Group0}

Decompose ==
    /\ ~panicked
    /\ \E v \in Addresses : decomposed' = <<v, indices(v)>>
    /\ UNCHANGED <<frameVars, pageVars, heapVars, panicked, op, lockVars, walk, pte>>

(***************************************************************************)
(* One PageTableEntry value (paging.rs:31-54)                              *)
(***************************************************************************)
\* addresses given to new() and set_addr(): nothing, three frames, every
\* bit, bits below bit 12 only, bits 52..62 only, and the highest frame
\* address
EntryAddrs ==
    {Zero64, P_SCENARIO, HEAP_START, V_PML4_1, W(65535, 65535, 65535, 65535),
     W(0, 0, 0, 4095), W(32752, 0, 0, 0), W(15, 65535, 65535, 61440)}

\* flags given to new() and set_flags(): none, the flags init and map_page
\* use, every bit, an address bit only, NO_EXECUTE, and the flag bits 0..11
EntryFlags ==
    {Zero64, Or64(PRESENT, WRITABLE), Or64(Or64(PRESENT, WRITABLE), HUGE_PAGE),
     W(65535, 65535, 65535, 65535), W(0, 0, 0, 4096), NO_EXECUTE, W(0, 0, 0, 4095)}

EntryNew ==
    /\ ~panicked
    /\ \E addr \in EntryAddrs, flags \in EntryFlags :
         pte' = [e |-> PageTableEntry_new(addr, flags), call |-> "new",
                 addr |-> addr, flags |-> flags]
    /\ UNCHANGED <<frameVars, pageVars, heapVars, panicked, op, lockVars, walk, decomposed>>

EntrySetAddr ==
    /\ ~panicked
    /\ \E addr \in EntryAddrs :
         pte' = [e |-> set_addr(pte.e, addr), call |-> "set_addr",
                 addr |-> addr, flags |-> Zero64]
    /\ UNCHANGED <<frameVars, pageVars, heapVars, panicked, op, lockVars, walk, decomposed>>

EntrySetFlags ==
    /\ ~panicked
    /\ \E flags \in EntryFlags :
         pte' = [e |-> set_flags(pte.e, flags), call |-> "set_flags",
                 addr |-> Zero64, flags |-> flags]
    /\ UNCHANGED <<frameVars, pageVars, heapVars, panicked, op, lockVars, walk, decomposed>>

(***************************************************************************)
(* Heap API (heap.rs)                                                      *)
(***************************************************************************)
\* memory maps of the runs that exercise the heap: every frame below the
\* ceiling of the frame allocator, and a single frame (so that init panics)
HeapBootMaps ==
    {<<[base |-> 0, length |-> MAX_PAGES * PAGE_SIZE, mem_type |-> "Available"]>>,
     <<[base |-> 0, length |-> PAGE_SIZE, mem_type |-> "Available"]>>}

\* layout.size() of the requests: a few bytes, a page, more than a chunk,
\* and more than the whole heap may ever hold
RequestSizes == {8, PAGE_SIZE, EXTEND_CHUNK_SIZE + 1, MAX_HEAP_SIZE + PAGE_SIZE}

HeapCall(name, size) ==
    [name |-> name, size |-> size, ok |-> FALSE, first_failed |-> FALSE,
     extended |-> FALSE, at_ceiling |-> FALSE]

NewlyAllocated(a) == {p \in Pages : a.bitmap[p] /\ ~FRAME_ALLOCATOR.bitmap[p]}

HeapFrameInit == FrameInitFrom(HeapBootMaps)

\* heap::init, called once by mem::init
HeapInit ==
    /\ ~panicked
    /\ ~inner.init
    /\ \E r \in {init_pages(PAGE_TABLES, FRAME_ALLOCATOR, 0,
                            (INITIAL_HEAP_SIZE + PAGE_SIZE - 1) \div PAGE_SIZE)} :
         /\ PAGE_TABLES' = r.pt
         /\ FRAME_ALLOCATOR' = r.a
         /\ held' = Bump(held, NewlyAllocated(r.a))
         /\ panicked' = r.panic
         /\ IF r.panic
            THEN UNCHANGED <<heap_end, inner, live>>
            ELSE /\ heap_end' = Add64(HEAP_START, FromNat(INITIAL_HEAP_SIZE))
                 /\ inner' = [init |-> TRUE, size |-> INITIAL_HEAP_SIZE, used |-> 0]
                 /\ live' = <<>>
         /\ heap_op' = [HeapCall("init", 0) EXCEPT !.ok = ~r.panic]
    /\ UNCHANGED <<fa_ready, op, vmap, calls, lockVars, walk, decomposed, pte>>

\* an alloc that, when its retry fails, extends the heap a second time
Allocate_extending_again ==
    /\ ~panicked
    /\ \E size \in RequestSizes : \E first \in first_fit(inner, size) :
         LET ceiling == heap_size(heap_end) >= MAX_HEAP_SIZE
             call == [HeapCall("allocate", size) EXCEPT !.at_ceiling = ceiling]
         IN  IF first /\ Len(live) < MaxLive
             THEN /\ inner' = [inner EXCEPT !.used = @ + size]
                  /\ live' = Append(live, size)
                  /\ heap_op' = [call EXCEPT !.ok = TRUE]
                  /\ UNCHANGED <<FRAME_ALLOCATOR, PAGE_TABLES, held, panicked, heap_end>>
             ELSE /\ ~first
                  /\ inner.init
                  /\ \E r \in {try_extend(heap_end, PAGE_TABLES, FRAME_ALLOCATOR, size)} :
                     \E second \in first_fit([inner EXCEPT !.size = @ + r.added], size) :
                     \E q \in {IF r.ok /\ ~second
                               THEN try_extend(r.heap_end, r.pt, r.a, size)
                               ELSE [r EXCEPT !.added = 0]} :
                       LET got == r.ok /\ second /\ Len(live) < MaxLive
                       IN  /\ PAGE_TABLES' = q.pt
                           /\ FRAME_ALLOCATOR' = q.a
                           /\ held' = Bump(held, NewlyAllocated(q.a))
                           /\ panicked' = FALSE
                           /\ heap_end' = q.heap_end
                           /\ inner' = [inner EXCEPT !.size = @ + r.added + q.added,
                                                     !.used = IF got THEN @ + size ELSE @]
                           /\ live' = IF got THEN Append(live, size) ELSE live
                           /\ heap_op' = [call EXCEPT !.first_failed = TRUE,
                                                      !.extended = r.ok, !.ok = got]
    /\ UNCHANGED <<fa_ready, op, vmap, calls, lockVars, walk, decomposed, pte>>

\* GlobalAlloc::alloc.  inner.extend on a heap that init never set up is
\* outside the allocator crate's contract: it may panic.
Allocate ==
    /\ ~panicked
    /\ \E size \in RequestSizes : \E first \in first_fit(inner, size) :
         LET ceiling == heap_size(heap_end) >= MAX_HEAP_SIZE
             call == [HeapCall("allocate", size) EXCEPT !.at_ceiling = ceiling]
         IN  IF first /\ Len(live) < MaxLive
             THEN /\ inner' = [inner EXCEPT !.used = @ + size]
                  /\ live' = Append(live, size)
                  /\ heap_op' = [call EXCEPT !.ok = TRUE]
                  /\ UNCHANGED <<FRAME_ALLOCATOR, PAGE_TABLES, held, panicked, heap_end>>
             ELSE /\ ~first
                  /\ \E r \in {try_extend(heap_end, PAGE_TABLES, FRAME_ALLOCATOR, size)} :
                       /\ PAGE_TABLES' = r.pt
                       /\ FRAME_ALLOCATOR' = r.a
                       /\ held' = Bump(held, NewlyAllocated(r.a))
                       /\ \E crash \in (IF r.ok /\ ~inner.init THEN BOOLEAN ELSE {FALSE}) :
                            /\ panicked' = crash
                            /\ IF crash \/ ~r.ok
                               THEN /\ UNCHANGED <<heap_end, inner, live>>
                                    /\ heap_op' = [call EXCEPT !.first_failed = TRUE,
                                                               !.extended = r.ok /\ ~crash]
                               ELSE /\ heap_end' = r.heap_end
                                    /\ \E second \in first_fit([inner EXCEPT !.size = @ + r.added],
                                                               size) :
                                         LET got == second /\ Len(live) < MaxLive
                                         IN  /\ inner' = [inner EXCEPT
                                                             !.size = @ + r.added,
                                                             !.used = IF got THEN @ + size ELSE @]
                                             /\ live' = IF got THEN Append(live, size) ELSE live
                                             /\ heap_op' = [call EXCEPT !.first_failed = TRUE,
                                                                        !.extended = TRUE,
                                                                        !.ok = got]
    /\ UNCHANGED <<fa_ready, op, vmap, calls, lockVars, walk, decomposed, pte>>

\* GlobalAlloc::dealloc of a live allocation
Deallocate ==
    /\ ~panicked
    /\ \E i \in 1..Len(live) :
         /\ inner' = [inner EXCEPT !.used = @ - live[i]]
         /\ live' = SubSeq(live, 1, i - 1) \o SubSeq(live, i + 1, Len(live))
         /\ heap_op' = [HeapCall("deallocate", live[i]) EXCEPT !.ok = TRUE]
    /\ UNCHANGED <<frameVars, pageVars, panicked, op, heap_end, lockVars, walk, decomposed, pte>>

(***************************************************************************)
(* Contexts and spin locks                                                 *)
(***************************************************************************)
\* what one round of an extension loop can meet: the frame allocator is
\* empty, the page is mapped after `tables` new table levels, or map_page
\* fails after `tables` new levels
PageOutcomes ==
    [kind : {"mapped"}, tables : 0..3] \cup [kind : {"mapfail"}, tables : 0..2]
    \cup [kind : {"noframe"}, tables : {0}]

Mapped == [kind : {"mapped"}, tables : 0..3]

\* the rounds of one loop: every round but the last maps its page
LoopRuns(max) ==
    UNION {{ps \in [1..n -> PageOutcomes] : \A k \in 1..(n - 1) : ps[k] \in Mapped}
           : n \in 1..max}

\* the calls of GlobalAlloc::alloc
AllocCalls(max, logging) ==
    {alloc_locks(TRUE, FALSE, <<>>, FALSE)}
    \cup {alloc_locks(FALSE, TRUE, <<>>, logs) : logs \in logging}
    \cup {alloc_locks(FALSE, FALSE, ps, logs) : ps \in LoopRuns(max), logs \in logging}

\* the calls of keyboard::handle_interrupt: a 0xE0 prefix, a full buffer,
\* a push with room, and a push that makes the deque grow
HandlerCalls ==
    {handle_interrupt_locks(TRUE, FALSE, "no", <<>>),
     handle_interrupt_locks(FALSE, FALSE, "no", <<>>),
     handle_interrupt_locks(FALSE, TRUE, "no", <<>>)}
    \cup {handle_interrupt_locks(FALSE, TRUE, grow, a)
          : grow \in {"first", "again"}, a \in AllocCalls(1, {FALSE})}

\* the running context: the interrupted one is below it
Top == todo[Len(todo)]
Holds(c) == {l \in LOCKS : locks[l] = c}

\* the running context has made the event at the head of its call; a
\* context that has no event left returns
Advanced ==
    IF Len(Top) > 1 THEN [todo EXCEPT ![Len(todo)] = Tail(Top)]
    ELSE IF Len(todo) = 2 /\ todo[1] = <<>> THEN <<>>
    ELSE SubSeq(todo, 1, Len(todo) - 1)

\* the main context, idle, makes a call
Start(runs) ==
    /\ todo = <<>> /\ spinning = "none"
    /\ \E ev \in runs : todo' = <<ev>>
    /\ UNCHANGED <<locks, order, spinning>>
    /\ UNCHANGED <<frameVars, pageVars, heapVars, panicked, op, walk, decomposed, pte>>

CallAllocate == Start(AllocCalls(MaxExtendPages, BOOLEAN))
CallDeallocate == Start({dealloc_locks})
CallHeapInit ==
    Start({heap_init_locks(ps, logs) : ps \in LoopRuns(MaxExtendPages), logs \in BOOLEAN})
CallHeapSize == Start({heap_size_locks})
CallFrameAllocator ==
    Start({frame_query_locks}
          \cup {phys_init_locks(logs) : logs \in BOOLEAN}
          \cup {alloc_frame_locks(found, logs) : found \in BOOLEAN, logs \in BOOLEAN}
          \cup {free_frame_locks(beyond, logs) : beyond \in BOOLEAN, logs \in BOOLEAN})
CallMapPage ==
    Start({map_page_locks(tables, ok, logs)
           : tables \in 1..3, ok \in BOOLEAN, logs \in BOOLEAN})
CallReadKey == Start({read_key_locks})

\* spin::Mutex::lock: the lock is taken if it is free; if any context holds
\* it, the caller spins, and on one CPU the holder never runs again
Lock ==
    /\ todo # <<>> /\ spinning = "none"
    /\ Head(Top)[1] = "acq"
    /\ LET l == Head(Top)[2]
       IN  /\ order' = order \cup {<<h, l>> : h \in Holds(Len(todo))}
           /\ IF locks[l] = 0
              THEN /\ locks' = [locks EXCEPT ![l] = Len(todo)]
                   /\ todo' = Advanced
                   /\ UNCHANGED spinning
              ELSE /\ spinning' = l
                   /\ UNCHANGED <<todo, locks>>
    /\ UNCHANGED <<frameVars, pageVars, heapVars, panicked, op, walk, decomposed, pte>>

\* a guard is dropped
Unlock ==
    /\ todo # <<>> /\ spinning = "none"
    /\ Head(Top)[1] = "rel"
    /\ locks' = [locks EXCEPT ![Head(Top)[2]] = 0]
    /\ todo' = Advanced
    /\ UNCHANGED <<order, spinning>>
    /\ UNCHANGED <<frameVars, pageVars, heapVars, panicked, op, walk, decomposed, pte>>

\* IRQ 1 arrives between two events of the main context, or while it is
\* idle or halted; the handler runs with interrupts off (idt.rs:250-262)
KeyboardInterrupt ==
    /\ Len(todo) <= 1 /\ spinning = "none"
    /\ \E ev \in HandlerCalls :
         todo' = IF todo = <<>> THEN <<<<>>, ev>> ELSE Append(todo, ev)
    /\ UNCHANGED <<locks, order, spinning>>
    /\ UNCHANGED <<frameVars, pageVars, heapVars, panicked, op, walk, decomposed, pte>>

(***************************************************************************)
(* Specifications                                                          *)
(***************************************************************************)
\* The state after construction, over memory that holds junk wherever no
\* table write has reached.
InitOver(junk) ==
    /\ FRAME_ALLOCATOR = NewFrameAllocator
    /\ fa_ready = FALSE
    /\ PAGE_TABLES = EmptyPageTables(junk)
    /\ panicked = FALSE
    /\ op = NoOp
    /\ held = [p \in Pages |-> 0]
    /\ vmap = [k \in VKeys |-> None]
    /\ calls = 0
    /\ heap_end = HEAP_START
    /\ inner = EmptyHeap
    /\ live = <<>>
    /\ heap_op = HeapCall("none", 0)
    /\ todo = <<>>
    /\ locks = [l \in LOCKS |-> 0]
    /\ order = {}
    /\ spinning = "none"
    /\ walk = NoWalk
    /\ decomposed = <<>>
    /\ pte = [e |-> Zero64, call |-> "empty", addr |-> Zero64, flags |-> Zero64]

\* The frame allocator reads no page-table memory.
Init == InitOver(Zero64)

InitAnyMemory == \E junk \in JunkEntries : InitOver(junk)

\* The frame allocator under every sequence of calls of its API.
Next ==
    \/ FrameInit
    \/ AllocFrame
    \/ AllocFrames
    \/ FreeFrame
    \/ FreeFrames

Spec == Init /\ [][Next]_vars

\* Boot of the frame allocator: init over every memory map, then the
\* first alloc() calls.
NextBoot ==
    \/ FrameInitKeepingMap
    \/ AllocFrame

SpecBoot == Init /\ [][NextBoot]_vars

\* The mapper over the frame allocator: boot, then every sequence of
\* map_page and unmap_page calls.
NextPaging ==
    \/ BootFrameInit
    \/ PagingInit
    \/ MapPage
    \/ UnmapPage

SpecPaging == InitAnyMemory /\ [][NextPaging]_vars

\* The mapper with the lookups of translate between its calls.
NextWalk ==
    \/ BootFrameInit
    \/ PagingInit
    \/ MapPage
    \/ UnmapPage
    \/ Translate

SpecWalk == InitAnyMemory /\ [][NextWalk]_vars

\* map_page calls, one access to memory per step.
NextMapSteps ==
    \/ BootBeforeWalks
    \/ MapPageCall
    \/ MapPageEntry
    \/ MapPageZero
    \/ MapPageLeaf

SpecMapSteps == InitAnyMemory /\ [][NextMapSteps]_vars

\* indices() over the tables as boot leaves them.
NextIndices ==
    \/ BootFrameInit
    \/ PagingInit
    \/ Decompose

SpecIndices == InitAnyMemory /\ [][NextIndices]_vars

\* A PageTableEntry made by new() and changed by set_addr() and set_flags().
NextEntry ==
    \/ EntryNew
    \/ EntrySetAddr
    \/ EntrySetFlags

SpecEntry == Init /\ [][NextEntry]_vars

\* The heap over the frame allocator and the mapper: boot, then every
\* sequence of allocate and deallocate calls.
NextHeap ==
    \/ HeapFrameInit
    \/ PagingInit
    \/ HeapInit
    \/ Allocate
    \/ Deallocate

SpecHeap == InitAnyMemory /\ [][NextHeap]_vars

\* One context calling the heap, the mapper and the frame allocator: every
\* lock()/unlock of every call, one at a time.
NextLocks ==
    \/ CallAllocate
    \/ CallDeallocate
    \/ CallHeapInit
    \/ CallHeapSize
    \/ CallFrameAllocator
    \/ CallMapPage
    \/ CallReadKey
    \/ Lock
    \/ Unlock

SpecLocks == Init /\ [][NextLocks]_vars

\* The main context allocating, freeing and reading keys, with the keyboard
\* interrupt arriving at any point of it.
MainCalls ==
    Start(AllocCalls(1, {FALSE}) \cup {dealloc_locks, heap_size_locks, read_key_locks})

NextIrq ==
    \/ MainCalls
    \/ KeyboardInterrupt
    \/ Lock
    \/ Unlock

SpecIrq == Init /\ [][NextIrq]_vars

TypeOK ==
    /\ FRAME_ALLOCATOR.bitmap \in [Pages -> BOOLEAN]
    /\ FRAME_ALLOCATOR.first_free \in 0..MAX_PAGES
    /\ FRAME_ALLOCATOR.total_pages \in 0..MAX_PAGES
    /\ FRAME_ALLOCATOR.free_pages \in Nat
    /\ calls \in 0..MaxMapperCalls
    /\ inner.used <= inner.size
    /\ Len(live) <= MaxLive

(***************************************************************************)
(* Frame allocator: claims                                                 *)
(***************************************************************************)
FreeCount == FRAME_ALLOCATOR.free_pages
TotalCount == FRAME_ALLOCATOR.total_pages
IsFree(p) == ~FRAME_ALLOCATOR.bitmap[p]

\* C1: in every state reached by init (with or without a memory map) and
\* any sequence of alloc, alloc_contiguous, free and free_contiguous calls,
\* stats() = (total, used, free) has 0 <= free <= total and
\* free + used = total, i.e. used = total - free does not underflow.
C1_StatsNeverUnderflow ==
    /\ 0 <= FreeCount
    /\ FreeCount <= TotalCount
    /\ stats(FRAME_ALLOCATOR)[2] >= 0
    /\ stats(FRAME_ALLOCATOR)[3] + stats(FRAME_ALLOCATOR)[2] = stats(FRAME_ALLOCATOR)[1]

\* C2: a frame returned by alloc() or covered by a successful
\* alloc_contiguous() is not returned again before it is freed: no frame is
\* handed out twice without a free of it in between.
C2_NoFrameIssuedTwice == \A p \in Pages : held[p] <= 1

\* C2 witness: alloc() has just returned a frame while another frame handed
\* out earlier is still held.
C2_Witness ==
    /\ op.name = "alloc" /\ op.ret.some
    /\ Cardinality({p \in Pages : held[p] = 1}) >= 2

\* C7: whenever alloc_contiguous(n) returns a base b, frames b .. b+n-1 were
\* all free before the call and are all allocated after it, free_count went
\* down by exactly n, and no frame outside the range changed state.
C7_ContiguousSuccess ==
    [][(op'.name = "alloc_contiguous" /\ op'.ret.some) =>
         LET b == PageOf(op'.ret.val)
             n == op'.n
         IN  /\ n >= 1 /\ b + n <= MAX_PAGES
             /\ \A p \in b..(b + n - 1) :
                    /\ ~FRAME_ALLOCATOR.bitmap[p]
                    /\ FRAME_ALLOCATOR'.bitmap[p]
             /\ FRAME_ALLOCATOR'.free_pages = FRAME_ALLOCATOR.free_pages - n
             /\ \A p \in Pages \ (b..(b + n - 1)) :
                    FRAME_ALLOCATOR'.bitmap[p] = FRAME_ALLOCATOR.bitmap[p]
      ]_vars

\* C7 witness: alloc_contiguous has returned a run of at least two frames
\* that does not start at frame 0.
C7_Witness ==
    /\ op.name = "alloc_contiguous" /\ op.ret.some
    /\ op.n >= 2
    /\ PageOf(op.ret.val) >= 1

\* C8: whenever alloc_contiguous(n) returns the empty value, the bitmap,
\* free_count, total_count and first_free are as before the call.
C8_ContiguousFailureKeepsState ==
    [][(op'.name = "alloc_contiguous" /\ ~op'.ret.some /\ ~panicked') =>
         FRAME_ALLOCATOR' = FRAME_ALLOCATOR
      ]_vars

\* C8 witness: alloc_contiguous(n) has returned the empty value although
\* 1 <= n <= free_count, i.e. after scanning for a run and finding none.
C8_Witness ==
    /\ op.name = "alloc_contiguous" /\ ~op.ret.some /\ ~panicked
    /\ op.n >= 1 /\ op.n <= FreeCount
    /\ \E p \in Pages : IsFree(p)

(***************************************************************************)
(* Mapper: claims                                                          *)
(***************************************************************************)
\* the addresses of the page of key k at which translate is asked
PageAddrs(k) == {Add64(k, FromNat(off)) : off \in TranslateOffsets}
\* p + (w mod 4096)
Translated(p, w) == Some(Add64(p, FromNat(w[1] % PAGE_SIZE)))

V_SCENARIO_IN == W(\h0000, \h0000, \h0050, \h0123)  \* 0x500000 + 0x123
P_SCENARIO_IN == W(\h0000, \h0000, \h0070, \h0123)  \* 0x700123

\* C3: once map_page(v, p, flags) has succeeded for an aligned p from tables
\* with no huge page on v's path, translate(w) = p + (w mod 4096) for every
\* w in v's page, in every later state until that page is mapped again or
\* unmapped.
C3_MappingPersists ==
    \A k \in VKeys :
        vmap[k].some =>
            \A w \in PageAddrs(k) : translate(PAGE_TABLES, w) = Translated(vmap[k].val, w)

\* C4: from the bootstrap state, map_page(0x500000, 0x700000,
\* present | writable) succeeds and translate(0x500123) is then 0x700123.
C4_BootstrapScenario ==
    (/\ op.name = "map_page" /\ op.boot
     /\ op.virt = V_SCENARIO
     /\ op.arg = [phys |-> P_SCENARIO, flags |-> Or64(PRESENT, WRITABLE)])
    => /\ op.ok
       /\ translate(PAGE_TABLES, V_SCENARIO_IN) = Some(P_SCENARIO_IN)

\* C5: unmap_page(v) right after a successful map_page(v, p, flags) that
\* started with no huge page on v's path returns p, and translate gives the
\* empty value for v's page afterwards.
C5_UnmapReturnsMapped ==
    [][ (/\ op.name = "map_page" /\ op.ok /\ op.nohuge
         /\ op'.name = "unmap_page"
         /\ PageKey(op'.virt) = PageKey(op.virt))
        => /\ op'.ret = Some(op.arg.phys)
           /\ \A w \in PageAddrs(PageKey(op'.virt)) \cup {op'.virt} :
                  translate(PAGE_TABLES', w) = None ]_vars

\* C6: unmap_page(v) when an entry on v's four-level walk is not present
\* (also right after a successful unmap_page(v)) returns the error and
\* leaves every page-table entry as it was.
C6_UnmapAbsentFails ==
    [][ (op'.name = "unmap_page" /\ LevelAbsent(PAGE_TABLES, op'.virt))
        => (~op'.ret.some /\ PAGE_TABLES' = PAGE_TABLES) ]_vars

\* an unmap_page right after a successful unmap_page of the same address
\* returned the error
C6_Witness ==
    op.name = "unmap_page" /\ op.again /\ ~op.ok

(***************************************************************************)
(* Heap: claims                                                            *)
(***************************************************************************)
\* C9: heap_size() never exceeds MAX_HEAP_SIZE, whatever is allocated and
\* deallocated, requests beyond the remaining headroom included.
C9_HeapWithinCeiling == heap_size(heap_end) <= MAX_HEAP_SIZE

\* a request for more than the heap may ever hold has extended the heap, and
\* the heap stands at the ceiling
C9_Witness ==
    /\ heap_op.name = "allocate" /\ heap_op.size > MAX_HEAP_SIZE
    /\ heap_op.extended
    /\ heap_size(heap_end) = MAX_HEAP_SIZE

\* C10: with heap_size() at the ceiling, an allocate whose first attempt
\* fails gets false from try_extend, which allocates no frame and maps no
\* page, and returns null.
C10_CeilingReported ==
    [][ (/\ heap_op'.name = "allocate" /\ heap_op'.first_failed
         /\ heap_size(heap_end) = MAX_HEAP_SIZE)
        => /\ ~heap_op'.extended /\ ~heap_op'.ok
           /\ FRAME_ALLOCATOR' = FRAME_ALLOCATOR
           /\ PAGE_TABLES' = PAGE_TABLES
           /\ heap_end' = heap_end ]_vars

\* an allocate at the ceiling whose first attempt failed returned null
C10_Witness ==
    /\ heap_op.name = "allocate" /\ heap_op.at_ceiling /\ heap_op.first_failed
    /\ ~heap_op.ok
    /\ heap_size(heap_end) = MAX_HEAP_SIZE

(***************************************************************************)
(* Frame exhaustion: claims                                                *)
(***************************************************************************)
\* C11: no operation of the core panics when physical frames run out; in
\* particular heap init, run after phys::init, reports through its return
\* value that the frame allocator could not supply an initial page or that
\* the mapping of an initial page failed: the kernel has not panicked when
\* heap init has returned.
C11_HeapInitNeverPanics ==
    (fa_ready /\ heap_op.name = "init") => ~panicked

(***************************************************************************)
(* Frame allocator: alloc, alloc_contiguous and first_free                 *)
(***************************************************************************)
FirstFree == FRAME_ALLOCATOR.first_free
\* the free frames p with lo <= p < hi
FreeIn(lo, hi) == {p \in Pages : lo <= p /\ p < hi /\ IsFree(p)}

\* C12: alloc() returns the lowest free frame at or above first_free and
\* below total_count if there is one, otherwise the lowest free frame below
\* first_free; it marks that frame (and no other) allocated and sets
\* first_free to one past it; it returns the empty value exactly when no
\* frame below total_count is free, and then changes nothing.
C12_AllocLowestFree ==
    [][op'.name = "alloc" =>
        LET upper == FreeIn(FirstFree, TotalCount)
            lower == FreeIn(0, FirstFree)
        IN  /\ ~op'.ret.some <=> FreeIn(0, TotalCount) = {}
            /\ ~op'.ret.some => FRAME_ALLOCATOR' = FRAME_ALLOCATOR
            /\ op'.ret.some =>
                  /\ upper \cup lower # {}
                  /\ LET f == IF upper # {} THEN MinOf(upper) ELSE MinOf(lower)
                     IN  /\ op'.ret.val = FrameAddr(f)
                         /\ FRAME_ALLOCATOR'.bitmap =
                              [FRAME_ALLOCATOR.bitmap EXCEPT ![f] = TRUE]
                         /\ FRAME_ALLOCATOR'.first_free = f + 1]_vars

\* alloc() has returned a frame although a lower-numbered frame is free
C12_Witness ==
    /\ op.name = "alloc"
    /\ op.ret.some
    /\ \E p \in Pages : p < PageOf(op.ret.val) /\ IsFree(p)

\* C13: in every state reached by init and any sequence of alloc,
\* alloc_contiguous, free and free_contiguous calls, first_free is at most
\* the index of the lowest free frame, whenever a free frame exists.
C13_FirstFreeAtMostLowestFree ==
    fa_ready => \A p \in Pages : IsFree(p) => FirstFree <= p

\* the bases b >= first_free of the runs of n free frames that end at or
\* below total_count
RunBases(n) ==
    {b \in Pages : /\ FirstFree <= b
                   /\ b + n <= TotalCount
                   /\ \A p \in b..(b + n - 1) : p \in Pages /\ IsFree(p)}

\* C14: alloc_contiguous(n) with 1 <= n <= free_count returns the lowest
\* base b >= first_free whose frames b .. b+n-1 are all free with
\* b+n <= total_count, and sets first_free to b+n; when there is no such
\* base (also when runs of n free frames start below first_free only), or
\* when n = 0 or n > free_count, it returns the empty value.
C14_ContiguousLowestRun ==
    [][op'.name = "alloc_contiguous" =>
        LET n == op'.n
        IN  /\ ~panicked'
            /\ IF 1 <= n /\ n <= FreeCount /\ RunBases(n) # {}
               THEN /\ op'.ret = Some(FrameAddr(MinOf(RunBases(n))))
                    /\ FRAME_ALLOCATOR'.first_free = MinOf(RunBases(n)) + n
               ELSE ~op'.ret.some]_vars

(***************************************************************************)
(* Frame allocator: init                                                   *)
(***************************************************************************)
FreeSet == {p \in Pages : IsFree(p)}

\* the frames below the ceiling that lie entirely inside an Available
\* entry of the memory map
InsideAvailable(map) ==
    {p \in Pages : \E i \in 1..Len(map) :
        /\ map[i].mem_type = "Available"
        /\ map[i].base <= p * PAGE_SIZE
        /\ (p + 1) * PAGE_SIZE <= map[i].base + map[i].length}

\* the single entry {base 0, length 0x4000, Available}
ScenarioMap == <<[base |-> 0, length |-> 4 * PAGE_SIZE, mem_type |-> "Available"]>>

\* C15: after init with a memory map the free frames are exactly the
\* frames below the ceiling that lie entirely inside some Available entry
\* (entries of other types free nothing) and free_count is their number;
\* for the single entry {base 0, length 0x4000, Available} frames 0..3 are
\* free, free_count = 4, and the first two alloc() calls return 0 and
\* 0x1000.
C15_InitFreesAvailableFrames ==
    (op.name = "init" /\ op.ok) =>
        /\ FreeSet = InsideAvailable(op.map)
        /\ FreeCount = Cardinality(InsideAvailable(op.map))
        /\ op.map = ScenarioMap =>
              /\ FreeSet = 0..3
              /\ FreeCount = 4
              /\ alloc(FRAME_ALLOCATOR).ret = Some(FromNat(0))
              /\ alloc(alloc(FRAME_ALLOCATOR).a).ret = Some(FromNat(PAGE_SIZE))

\* init has run over a map with an entry of another type and an Available
\* entry that starts inside a frame and reaches beyond the ceiling
C15_Witness ==
    /\ op.name = "init"
    /\ Len(op.map) = 2
    /\ op.map[1].mem_type # "Available"
    /\ op.map[2].base % PAGE_SIZE # 0
    /\ op.map[2].base + op.map[2].length > MAX_PAGES * PAGE_SIZE
    /\ FreeSet # {}

\* C16: after init with no memory map (null pointer or zero entries) every
\* frame below the ceiling is treated as free: free_count = total_count =
\* MAX_PAGES, and the alloc() that follows returns a frame address rather
\* than the empty value.
C16_NoMapAllFree ==
    [][(op.name = "init" /\ ~op.ok /\ op'.name = "alloc") =>
        /\ FreeCount = MAX_PAGES
        /\ TotalCount = MAX_PAGES
        /\ op'.ret.some]_vars

\* C17: after init with a memory map, total_count equals the number of
\* distinct frames that init marked free, also when the Available regions
\* do not start at frame 0 or have gaps between them.
C17_TotalCountsFreedFrames ==
    (op.name = "init" /\ op.ok) => TotalCount = Cardinality(FreeSet)

\* C18: a frame above the highest frame made available by init is
\* permanently allocated.  After init total_count is one more than that
\* highest frame, so the claim is that every call after init keeps
\* total_count from growing, leaves every frame at or above total_count
\* allocated, and returns no such frame from alloc() or alloc_contiguous().
C18_BeyondInitStaysAllocated ==
    [][fa_ready =>
        /\ TotalCount' <= TotalCount
        /\ \A p \in Pages : p >= TotalCount => FRAME_ALLOCATOR'.bitmap[p]
        /\ (op'.name \in {"alloc", "alloc_contiguous"} /\ op'.ret.some) =>
              PageOf(op'.ret.val) + op'.n <= TotalCount]_vars

(***************************************************************************)
(* Frame allocator: free and free_contiguous                               *)
(***************************************************************************)
\* C19: free(addr) on a frame that is already free, and free_contiguous
\* over frames that are already free, leave the bitmap, free_count and
\* total_count unchanged, so that free_count is not incremented twice for
\* one frame and a second free of the same address has no effect; free on a
\* free frame leaves first_free unchanged as well.
C19_FreeOfFreeFrames ==
    [][/\ (op'.name \in {"free", "free_contiguous"} /\ op'.refree) =>
            /\ FRAME_ALLOCATOR'.bitmap = FRAME_ALLOCATOR.bitmap
            /\ FreeCount' = FreeCount
            /\ TotalCount' = TotalCount
            /\ op'.name = "free" => FirstFree' = FirstFree
       /\ op'.name = "free" =>
            free(FRAME_ALLOCATOR', op'.arg.phys) = FRAME_ALLOCATOR']_vars

\* free has been called on a frame that was free already, while another
\* frame is allocated
C19_Witness ==
    /\ op.name = "free"
    /\ op.refree
    /\ FreeCount < TotalCount

\* C20: free(addr) on an allocated frame f below the ceiling clears f's
\* bit and the bit of no other frame, increases free_count by 1 and sets
\* first_free to min(first_free, f); when f < first_free, the alloc() that
\* follows returns f.
C20_FreeOfAllocatedFrame ==
    [][LET f == PageOf(op'.arg.phys)
       IN  (op'.name = "free" /\ f \in Pages /\ ~IsFree(f)) =>
              /\ FRAME_ALLOCATOR'.bitmap = [FRAME_ALLOCATOR.bitmap EXCEPT ![f] = FALSE]
              /\ FreeCount' = FreeCount + 1
              /\ FirstFree' = Min(FirstFree, f)
              /\ f < FirstFree =>
                    alloc(FRAME_ALLOCATOR').ret = Some(FrameAddr(f))]_vars

\* free has released an allocated frame other than frame 0 and first_free
\* has come down to it
C20_Witness ==
    /\ op.name = "free"
    /\ ~op.refree
    /\ PageOf(op.arg.phys) \in Pages \ {0}
    /\ IsFree(PageOf(op.arg.phys))
    /\ FirstFree = PageOf(op.arg.phys)
    /\ FreeCount < TotalCount

\* C21: free(addr) and free_contiguous(addr, n) naming frames at or beyond
\* the ceiling do not abort and change neither the bitmap, free_count,
\* total_count nor first_free; such frames read as allocated and are never
\* returned by alloc() or alloc_contiguous().
C21_BeyondCeilingIgnored ==
    [][/\ (op'.name \in {"free", "free_contiguous"} /\ op'.beyond) =>
            /\ ~panicked'
            /\ FRAME_ALLOCATOR' = FRAME_ALLOCATOR
       /\ (op'.name \in {"alloc", "alloc_contiguous"} /\ op'.ret.some) =>
            PageOf(op'.ret.val) + op'.n <= MAX_PAGES
       /\ \A p \in MAX_PAGES..(MAX_PAGES + 1) : is_allocated(FRAME_ALLOCATOR', p)]_vars

(***************************************************************************)
(* Mapper: the bootstrap tables                                            *)
(***************************************************************************)
\* offsets into a 2 MiB page: its first byte, 0x123 and 0x1FFFFF
Offsets2MiB == {Zero64, W(0, 0, 0, \h0123), W(0, 0, \h001F, \hFFFF)}

\* addresses below 4 GiB: in each GiB the first, second and last 2 MiB
\* page, at each of the offsets
IdentityProbes ==
    {Add64(Times2MiB(j * 512 + i), off) : j \in 0..3, i \in {0, 1, 511}, off \in Offsets2MiB}

\* 0xFFFFFF8000000000 + v for v below 512 GiB: top-level index 511
HigherHalf(v) == <<v[1], v[2], v[3] + \hFF80, \hFFFF>>

\* the tables with PDPT entry 4 of the kernel's PDPT made a present 1 GiB
\* huge page of base 5 GiB
GIB5 == W(0, 1, \h4000, 0)
WithHugePdpt(pt) ==
    WriteEntry(pt, KPDPT_ADDR, 4, PageTableEntry_new(GIB5, Or64(PRESENT, HUGE_PAGE)))
\* 4 GiB + 0x3FFFFFFF: PDPT index 4, the last byte of its 1 GiB page
V_GIB4_LAST == W(0, 1, \h3FFF, \hFFFF)

\* C22: after paging init, translate(v) = v for v below 4 GiB, and translate of
\* 0xFFFFFF8000000000 + v is v as well; both are resolved at a present
\* 2 MiB huge-page PD entry as entry base + (v mod 2 MiB); a huge-page PDPT
\* entry resolves as base + (v mod 1 GiB).
C22_BootstrapIdentity ==
    op.name = "paging_init" =>
        /\ \A v \in IdentityProbes :
              LET i == indices(v)
                  pd_entry == ReadEntry(PAGE_TABLES, KPD_ADDR(i.pdpt), i.pd)
              IN  /\ is_present(pd_entry) /\ is_huge_page(pd_entry)
                  /\ Add64(PTE_addr(pd_entry), Low21(v)) = v
                  /\ translate(PAGE_TABLES, v) = Some(v)
                  /\ indices(HigherHalf(v)).pml4 = 511
                  /\ translate(PAGE_TABLES, HigherHalf(v)) = Some(v)
        /\ translate(WithHugePdpt(PAGE_TABLES), V_GIB4_LAST)
              = Some(Add64(GIB5, Low30(V_GIB4_LAST)))
        /\ translate(WithHugePdpt(PAGE_TABLES), HigherHalf(V_GIB4_LAST))
              = Some(W(0, 1, \h7FFF, \hFFFF))

\* paging init has run over memory that held present entries
C22_Witness ==
    /\ op.name = "paging_init"
    /\ is_present(PAGE_TABLES.junk)
    /\ translate(PAGE_TABLES, W(0, 0, \hFFFF, \hFFFF)) = Some(W(0, 0, \hFFFF, \hFFFF))

(***************************************************************************)
(* C23: in map_page, unmap_page and translate an entry is used as a        *)
(* pointer to a next-level table only when its present flag is set (found  *)
(* set, or just installed by map_page): in every reachable state, every    *)
(* entry any of the three walks dereferences, for every address, is        *)
(* present.                                                                *)
(***************************************************************************)
AllPresent(es) == \A k \in 1..Len(es) : is_present(es[k])

C23_OnlyPresentEntriesFollowed ==
    \A v \in VirtInputs :
        /\ AllPresent(map_page_derefs(PAGE_TABLES, FRAME_ALLOCATOR, v))
        /\ AllPresent(unmap_page_derefs(PAGE_TABLES, v))
        /\ AllPresent(translate_derefs(PAGE_TABLES, v))

(***************************************************************************)
(* Heap growth: claims                                                     *)
(***************************************************************************)
\* the step is a call of GlobalAlloc::alloc that returned (the calls of the
\* frame allocator and of paging::init leave heap_op as the last heap call
\* left it and record themselves in op or fa_ready)
AllocateReturned ==
    /\ heap_op'.name = "allocate" /\ op' = op /\ fa_ready' = fa_ready
    /\ ~panicked'

\* mapped_pages at the end of try_extend's loop (heap.rs:74-100) when the
\* extension the allocate call asks for starts in the current state
MappedPages(min_bytes) ==
    extend_pages(PAGE_TABLES, FRAME_ALLOCATOR, heap_end, 0,
                 extend_num_pages(heap_end, min_bytes)).mapped

C25_ExtensionSize ==
    [][ (/\ AllocateReturned /\ heap_op'.first_failed
         /\ heap_size(heap_end) < MAX_HEAP_SIZE
         /\ MappedPages(heap_op'.size) = extend_num_pages(heap_end, heap_op'.size))
        => LET cur == heap_size(heap_end)
               headroom == MAX_HEAP_SIZE - cur
               grown == heap_size(heap_end') - cur
           IN  /\ grown = page_align_up(Min(Max(heap_op'.size, EXTEND_CHUNK_SIZE), headroom))
               /\ grown >= Min(EXTEND_CHUNK_SIZE, headroom)
               /\ grown <= headroom
               /\ grown % PAGE_SIZE = 0
               /\ inner'.size = inner.size + grown ]_vars

\* a request of 8 bytes met less than a chunk of headroom and grew the heap
\* by the headroom, up to the ceiling
C25_Witness ==
    /\ heap_op.name = "allocate" /\ heap_op.extended /\ inner.init
    /\ heap_op.size = 8
    /\ heap_size(heap_end) = MAX_HEAP_SIZE
    /\ MAX_HEAP_SIZE - INITIAL_HEAP_SIZE - EXTEND_CHUNK_SIZE < EXTEND_CHUNK_SIZE

\* C26: an allocate call tries the inner allocator first; when that attempt
\* succeeds nothing is extended and heap_end is unchanged; when it fails the
\* call makes exactly one try_extend, with the size of the failed request,
\* and retries the inner allocator once, and only if try_extend returned
\* true; a failed extension or a failed retry yields null, with no further
\* extension.
C26_AllocateExtendsOnce ==
    [][ AllocateReturned
        => /\ ~heap_op'.first_failed
              => /\ heap_op'.ok /\ ~heap_op'.extended
                 /\ heap_end' = heap_end /\ inner'.size = inner.size
                 /\ PAGE_TABLES' = PAGE_TABLES /\ FRAME_ALLOCATOR' = FRAME_ALLOCATOR
                 /\ inner'.used = inner.used + heap_op'.size
           /\ heap_op'.first_failed
              => \E r \in {try_extend(heap_end, PAGE_TABLES, FRAME_ALLOCATOR, heap_op'.size)} :
                   /\ heap_op'.extended = r.ok
                   /\ heap_end' = r.heap_end
                   /\ PAGE_TABLES' = r.pt /\ FRAME_ALLOCATOR' = r.a
                   /\ inner'.size = inner.size + r.added
                   /\ ~r.ok => ~heap_op'.ok /\ inner' = inner /\ live' = live
                   /\ inner'.used = IF heap_op'.ok THEN inner.used + heap_op'.size
                                    ELSE inner.used
                   /\ Len(live') = Len(live) + (IF heap_op'.ok THEN 1 ELSE 0) ]_vars

\* an allocate failed at first, extended the heap once and failed again at
\* its retry: it returned null and the heap stayed below the ceiling
C26_Witness ==
    /\ heap_op.name = "allocate" /\ heap_op.first_failed /\ heap_op.extended
    /\ ~heap_op.ok /\ inner.init
    /\ heap_op.size <= inner.size - inner.used
    /\ heap_size(heap_end) < MAX_HEAP_SIZE
    /\ FRAME_ALLOCATOR.free_pages > 0

RECURSIVE Reach(_, _)
Reach(R, n) ==
    IF n = 0 THEN R
    ELSE LET C == Reach(R, n - 1)
         IN  C \cup {p \in LOCKS \X LOCKS :
                        \E m \in LOCKS : <<p[1], m>> \in C /\ <<m, p[2]>> \in C}

Acyclic(R) == \A l \in LOCKS : <<l, l>> \notin Reach(R, 3)

\* the running context is about to call lock() on l
Requests(l) == todo # <<>> /\ Top # <<>> /\ Head(Top) = Acq(l)

\* C28: in every execution of the heap's calls, map_page and the frame
\* allocator's calls by one context, no lock is requested by the context
\* that holds it, no heap lock is requested while the frame allocator's
\* lock is held, and the pairs <<held, requested>> form no cycle: the
\* context never spins on itself.
C28_LockOrderAcyclic ==
    /\ spinning = "none"
    /\ \A l \in LOCKS : Requests(l) => locks[l] = 0
    /\ \A l \in HeapLocks : Requests(l) => locks["FRAME_ALLOCATOR"] = 0
    /\ Acyclic(order)

\* try_extend, inside allocate, holds heap_end, has extended the inner heap
\* under it before, and the frame allocator, holding its own lock, is about
\* to log
C28_Witness ==
    /\ locks["heap_end"] = 1 /\ locks["FRAME_ALLOCATOR"] = 1
    /\ Requests("SERIAL")
    /\ <<"heap_end", "inner">> \in order
    /\ <<"heap_end", "FRAME_ALLOCATOR">> \in order

(***************************************************************************)
(* Frames of the heap: claims                                              *)
(***************************************************************************)
\* the pages of [HEAP_START, heap_end)
HeapPages ==
    {Add64(HEAP_START, FromNat(k * PAGE_SIZE)) : k \in 0..((heap_size(heap_end) \div PAGE_SIZE) - 1)}

\* the leaf entry map_page wrote for v: the entry its four-level walk ends at
LeafEntry(pt, v) ==
    LET i == indices(v)
        e4 == ReadEntry(pt, KPML4_ADDR, i.pml4)
        e3 == ReadEntry(pt, PTE_addr(e4), i.pdpt)
        e2 == ReadEntry(pt, PTE_addr(e3), i.pd)
    IN  ReadEntry(pt, PTE_addr(e2), i.pt)

\* the frame init or try_extend obtained for heap page v and had mapped
Backing(v) == PTE_addr(LeafEntry(PAGE_TABLES, v))

\* the frames map_page allocated and zeroed as page tables
TableFrames == PAGE_TABLES.zeroed

MarkedAllocated(addr) == PageOf(addr) \in Pages /\ FRAME_ALLOCATOR.bitmap[PageOf(addr)]

InHandler == Len(todo) = 2

\* C30: the keyboard interrupt handler never allocates from the heap (it
\* requests no lock of the heap) and never requests a lock the interrupted
\* context holds, so that, wherever in the main context the interrupt
\* arrives, the handler never spins for ever.
C30_KeyboardInterruptCompletes ==
    /\ spinning = "none"
    /\ InHandler => \A k \in 1..Len(Top) : \A l \in HeapLocks : Top[k] # Acq(l)
    /\ InHandler => \A l \in LOCKS : Requests(l) => locks[l] = 0

(***************************************************************************)
(* Walks that create nothing: claims                                       *)
(***************************************************************************)
\* the slot the four-level walk of v ends at
LeafSlot(pt, v) ==
    LET i == indices(v)
        e4 == ReadEntry(pt, KPML4_ADDR, i.pml4)
        e3 == ReadEntry(pt, PTE_addr(e4), i.pdpt)
        e2 == ReadEntry(pt, PTE_addr(e3), i.pd)
    IN  <<PTE_addr(e2), i.pt>>

\* page-table memory is the same before and after the step in every slot
\* outside keep
SameTablesBut(keep) ==
    /\ PAGE_TABLES'.zeroed = PAGE_TABLES.zeroed
    /\ PAGE_TABLES'.seeded = PAGE_TABLES.seeded
    /\ PAGE_TABLES'.junk = PAGE_TABLES.junk
    /\ \A s \in (DOMAIN PAGE_TABLES.mem \cup DOMAIN PAGE_TABLES'.mem) \ keep :
         ReadEntry(PAGE_TABLES', s[1], s[2]) = ReadEntry(PAGE_TABLES, s[1], s[2])

TranslateReturned == op'.name = "translate"
UnmapPageReturned == op'.name = "unmap_page" /\ calls' = calls + 1

Exhausts(pt, a, v) ==
    \E i \in {indices(v)} :
      \E l4 \in {ensure_table(pt, a, KPML4_ADDR, i.pml4)} :
        \/ ~l4.ok
        \/ \E l3 \in {ensure_table(l4.pt, l4.a, l4.next, i.pdpt)} :
             \/ ~l3.ok
             \/ ~ensure_table(l3.pt, l3.a, l3.next, i.pd).ok

MapPageReturned == op'.name = "map_page" /\ calls' = calls + 1

\* addresses at which translate is compared before and after a call
Probes == VirtInputs \cup {HEAP_START}

\* C32: a map_page call that needs a new table level while the frame
\* allocator has no free frame returns the error without aborting, and
\* translate(w) is afterwards what it was before for every w, v included
\* (no leaf mapping for v is installed).
C32_ExhaustionLeavesTranslations ==
    [][ (MapPageReturned /\ Exhausts(PAGE_TABLES, FRAME_ALLOCATOR, op'.virt)) =>
            /\ ~op'.ok
            /\ ~panicked'
            /\ \A w \in Probes : translate(PAGE_TABLES', w) = translate(PAGE_TABLES, w)
      ]_vars

(***************************************************************************)
(* Order of the writes of map_page: claims                                 *)
(***************************************************************************)
\* the entry the walk stands at
EntryAtWalk == ReadEntry(PAGE_TABLES, walk.base, IndexAt(walk.virt, walk.level))

\* C33: in no intermediate state of a map_page call is an entry present
\* that names a table frame the call has allocated and not yet zeroed.
C33_ZeroedBeforePresent ==
    Walking => ~(is_present(EntryAtWalk) /\ PTE_addr(EntryAtWalk) \in walk.fresh)

(***************************************************************************)
(* Huge pages on the walk: claims                                          *)
(***************************************************************************)
NoneHuge(es) == \A k \in 1..Len(es) : ~is_huge_page(es[k])

\* C34: map_page and unmap_page follow no entry with the huge-page flag as
\* a pointer to a table, whatever address they are called with, and the
\* entry map_page installs for a new table never carries the flag.
C34_HugePagesNotFollowed ==
    /\ \A v \in VirtInputs :
         /\ NoneHuge(map_page_derefs(PAGE_TABLES, FRAME_ALLOCATOR, v))
         /\ NoneHuge(unmap_page_derefs(PAGE_TABLES, v))
    /\ \A p \in Pages : ~is_huge_page(installed([ret |-> Some(FrameAddr(p))]))

(***************************************************************************)
(* Counters and bitmap: claims                                             *)
(***************************************************************************)
\* C35: once init has run, with or without a memory map, and after every
\* sequence of alloc, alloc_contiguous, free and free_contiguous calls,
\* free_count() is the number of frames whose bitmap bit is clear, and
\* every such frame has an index below total_count().
C35_FreeCountIsClearBits ==
    fa_ready =>
        /\ FreeCount = Cardinality({p \in Pages : IsFree(p)})
        /\ \A p \in Pages : IsFree(p) => p < TotalCount

(***************************************************************************)
(* Frames of a failed map_page: claims                                     *)
(***************************************************************************)
\* C36: a map_page call that returns an error leaves free_count() as it
\* was before the call: no table frame the call obtained stays consumed.
C36_FailedMapKeepsFreeCount ==
    [][ (MapPageReturned /\ ~op'.ok) =>
            FRAME_ALLOCATOR'.free_pages = FRAME_ALLOCATOR.free_pages ]_vars

(***************************************************************************)
(* A page try_extend could not map: claims                                 *)
(***************************************************************************)
\* the frame whose map_page fails in the try_extend of the alloc call
\* that is returning
UnmappedFrame ==
    extend_unmapped_frame(PAGE_TABLES, FRAME_ALLOCATOR, heap_end, 0,
                          extend_num_pages(heap_end, heap_op'.size))

\* C37: when map_page fails inside try_extend, the frame obtained for that
\* page is given back before try_extend stops: when alloc returns the
\* frame is free and backs no page of the heap.
C37_UnmappedFrameReturned ==
    [][ (AllocateReturned /\ heap_op'.first_failed /\ ~heap_op'.at_ceiling) =>
            \E f \in {UnmappedFrame} :
                f.some =>
                    /\ ~is_allocated(FRAME_ALLOCATOR', PageOf(f.val))
                    /\ \A k \in 0..((heap_size(heap_end') \div PAGE_SIZE) - 1) :
                         PTE_addr(LeafEntry(PAGE_TABLES',
                                            Add64(HEAP_START, FromNat(k * PAGE_SIZE)))) # f.val
      ]_vars

\* alloc found no room, try_extend ran below the ceiling and mapped
\* nothing although a frame is free: it got a frame, map_page failed for
\* want of a table frame, and the frame went back
C37_Witness ==
    /\ heap_op.name = "allocate" /\ heap_op.first_failed
    /\ ~heap_op.extended /\ ~heap_op.at_ceiling
    /\ ~panicked /\ fa_ready
    /\ FRAME_ALLOCATOR.free_pages >= 1
    /\ \E p \in Pages : IsFree(p)

(***************************************************************************)
(* Arena and mapped window: claims                                         *)
(***************************************************************************)
\* heap_stats(): (inner.free(), inner.used())
heap_stats == [free |-> inner.size - inner.used, used |-> inner.used]

\* C38: between the calls of the heap, the arena the inner allocator knows
\* (free + used bytes of heap_stats) is heap_size(), heap_end is a multiple
\* of 4 KiB, every page of [HEAP_START, heap_end) has the present leaf
\* entry a successful map_page wrote, and the inner allocator has been
\* handed nothing at or above heap_end.
C38_ArenaIsMappedWindow ==
    /\ heap_stats.free + heap_stats.used = heap_size(heap_end)
    /\ heap_end[1] % PAGE_SIZE = 0
    /\ \A v \in HeapPages : is_present(LeafEntry(PAGE_TABLES, v))
    /\ inner.size <= heap_size(heap_end)

\* the heap has been set up and extended, no frame is left free, and an
\* allocation is live
C38_Witness ==
    /\ inner.init /\ heap_op.name = "allocate" /\ heap_op.extended
    /\ heap_size(heap_end) > INITIAL_HEAP_SIZE
    /\ \A p \in Pages : ~IsFree(p)
    /\ inner.used > 0

(***************************************************************************)
(* Decomposition of an address: claims                                     *)
(***************************************************************************)
\* n * 2^k as a 64-bit word, for n < 2^12 and k < 48
Shifted(n, k) ==
    LET low == n * Pow2(k % 16)
        at == [j \in 0..4 |-> IF j = k \div 16 THEN low % Limb
                              ELSE IF j = (k \div 16) + 1 THEN low \div Limb
                              ELSE 0]
    IN  <<at[0], at[1], at[2], at[3]>>

\* pml4 * 2^39 + pdpt * 2^30 + pd * 2^21 + pt * 2^12 + offset
Recomposed(i) ==
    Add64(Add64(Add64(Add64(Shifted(i.pml4, 39), Shifted(i.pdpt, 30)),
                      Shifted(i.pd, 21)), Shifted(i.pt, 12)), Shifted(i.offset, 0))

\* v mod 2^48
Low48(v) == <<v[1], v[2], v[3], 0>>

\* the addresses that agree with v in their low 48 bits
Aliases(v) == {W(l3, v[3], v[2], v[1]) : l3 \in Group3}

\* C39: indices(v) yields four table indices in 0..511 and an offset in
\* 0..4095 that put together again give v mod 2^48; addresses that agree in
\* their low 48 bits decompose alike and reach the same leaf entry in
\* map_page, unmap_page and translate.
C39_IndicesDecompose ==
    decomposed # <<>> =>
        \E v \in {decomposed[1]}, i \in {decomposed[2]} :
            /\ i.pml4 \in 0..511 /\ i.pdpt \in 0..511 /\ i.pd \in 0..511 /\ i.pt \in 0..511
            /\ i.offset \in 0..4095
            /\ Recomposed(i) = Low48(v)
            /\ \A w \in Aliases(v) :
                 /\ indices(w) = i
                 /\ LeafSlot(PAGE_TABLES, w) = LeafSlot(PAGE_TABLES, v)
                 /\ translate(PAGE_TABLES, w) = translate(PAGE_TABLES, v)
                 /\ unmap_page(PAGE_TABLES, w) = unmap_page(PAGE_TABLES, v)
                 /\ map_page(PAGE_TABLES, FRAME_ALLOCATOR, w, P_SCENARIO, PRESENT)
                      = map_page(PAGE_TABLES, FRAME_ALLOCATOR, v, P_SCENARIO, PRESENT)

\* an address of the higher half with every field at its highest value has
\* been taken apart, after boot
C39_Witness ==
    /\ decomposed # <<>>
    /\ decomposed[1] = W(65535, 65535, 65535, 65535)
    /\ decomposed[2].pml4 = 511 /\ decomposed[2].offset = 4095
    /\ PAGE_TABLES.seeded /\ fa_ready


(***************************************************************************)
(* Fields of a page-table entry: claims                                    *)
(***************************************************************************)
\* x restricted to bits 12..51, and to bits 0..11 and 63, by arithmetic on
\* the 16-bit groups
AddrBits(x) == <<x[1] - (x[1] % 4096), x[2], x[3], x[4] % 16>>
FlagBits(x) == <<x[1] % 4096, 0, 0, (x[4] \div 32768) * 32768>>
\* bits 52..62 of x
ReservedBits(x) == (x[4] % 32768) \div 16

\* C40: new(addr, flags) holds addr restricted to bits 12..51 and flags
\* restricted to bits 0..11 and 63, with bits 52..62 zero; set_addr leaves
\* flags() as it was and set_flags leaves addr() as it was.
C40_EntryFieldsApart ==
    [][ /\ pte'.call = "new" =>
             /\ PTE_addr(pte'.e) = AddrBits(pte'.addr)
             /\ PTE_flags(pte'.e) = FlagBits(pte'.flags)
             /\ ReservedBits(pte'.e) = 0
        /\ (pte'.call = "set_addr" /\ pte' # pte) =>
             /\ PTE_flags(pte'.e) = PTE_flags(pte.e)
             /\ PTE_addr(pte'.e) = AddrBits(pte'.addr)
             /\ ReservedBits(pte'.e) = 0
        /\ (pte'.call = "set_flags" /\ pte' # pte) =>
             /\ PTE_addr(pte'.e) = PTE_addr(pte.e)
             /\ PTE_flags(pte'.e) = FlagBits(pte'.flags)
             /\ ReservedBits(pte'.e) = 0
      ]_vars

\* an entry made with every bit of both arguments set has had its address
\* replaced: it holds the new frame and still every flag
C40_Witness ==
    /\ pte.call = "set_addr" /\ pte.addr = P_SCENARIO
    /\ PTE_addr(pte.e) = P_SCENARIO
    /\ PTE_flags(pte.e) = FLAG_MASK

====
